---- MODULE Spec2Model ----
(***************************************************************************)
(* Model of the charging-budget controller of powerwall2mqtt               *)
(* (src/controller.go, first variant, lines 1-340) together with the way   *)
(* main wires it (src/unnamed/part_004).                                   *)
(*                                                                         *)
(* Representation choices                                                  *)
(*  - float64 sensors are held in tenths of their unit, so that the        *)
(*    float64 -> int32 conversion of computeMaxPower (truncation toward    *)
(*    zero) and the float comparison "> 200" are not identities.           *)
(*  - Temperature is an int64 in tenths of a degree, as in the source.     *)
(*  - the observedValues bitmask is the set of the names of its set bits.  *)
(*  - sync.Mutex is the variable lock (its holder, or Free); sync.Cond is  *)
(*    the position of the single waiter, the decision loop (loopPc).       *)
(***************************************************************************)
EXTENDS Integers, Sequences, FiniteSets, TLC

\* ---------------------------------------------------------------- bounds
\* Total number of setter and getter invocations explored in one behaviour.
MaxCalls == 3

\* Number of setter invocations explored in one behaviour of the charge-mode
\* variant.
MaxModeCalls == 4

\* ------------------------------------------------------------- constants
MaxInt32 == 2147483647
MinInt32 == -MaxInt32 - 1

strategyUnknown == 0
strategySolar == 1
strategyFullSpeed == 2
strategyOffpeak == 3

Celsius == 10

maxAmps == 40
volts == 240
minSitePowerW == -100000

peakRatesStartMinute == 960
peakRatesEndMinute == 1260

\* The table with the amps of its first two rows exchanged.
tempClampsSwapped ==
  << [temp |-> 50 * Celsius, maxAmps |-> 12],
     [temp |-> 49 * Celsius, maxAmps |-> 8],
     [temp |-> 48 * Celsius, maxAmps |-> 16],
     [temp |-> 47 * Celsius, maxAmps |-> 24],
     [temp |-> 46 * Celsius, maxAmps |-> 32] >>

tempClamps ==
  << [temp |-> 50 * Celsius, maxAmps |-> 8],
     [temp |-> 49 * Celsius, maxAmps |-> 12],
     [temp |-> 48 * Celsius, maxAmps |-> 16],
     [temp |-> 47 * Celsius, maxAmps |-> 24],
     [temp |-> 46 * Celsius, maxAmps |-> 32] >>

observedValues ==
  { "observedEVBattery", "observedExportedSolar", "observedBattery",
    "observedLR", "observedStrategy", "observedTemp", "observedLoad",
    "observedSolar", "observedOperationMode", "observedBatteryLevel",
    "observedEVCurrent", "observedEVConnected" }

\* ------------------------------------------------- inputs (bounded sets)
\* Values the pollers hand to the setters.  Floats are in tenths.
\* The MQTT handler maps "solar", "fullspeed" and "offpeak" and exits the
\* process on anything else, so strategyUnknown is never passed.
StrategyValues == { strategySolar, strategyFullSpeed, strategyOffpeak }
TempValues == { 0, 46 * Celsius + 5, 50 * Celsius + 5 }
ExportedSolarValues == { -1000010, -55, 0, 25005, 200000 }
ExportedBatteryValues == { 0, 2005 }
PercentValues == { 0, 505 }
WattValues == { 0, 12000 }
OperationModeValues == { "", "self_consumption" }
MilliAmpValues == { 0, 16000 }

\* Minutes of the day the wall clock may show when a cycle reads it.
Minutes == { 959, 960, 1259, 1260 }

\* Errors the apply-budget callback may return (token.Error() in main).
NoError == "nil"
Errors == { "errConnectionLost", "errTimeout" }

\* Callers of the controller in main: the polling loop calls every setter but
\* SetControllerStrategy, the MQTT subscription handler calls
\* SetControllerStrategy, and the /events handler calls the getters.
Poller == "poller"
Subscriber == "subscriber"
SetterThreads == { Poller, Subscriber }
GetterThreads == { "events" }
Free == "free"
LoopThread == "loop"

NoValue == "none"
\* now when the cycle has not read the clock
NoTime == "notime"
Topics == { "budget", "evse_temperature", "evse_current", "ev_connected" }

VARIABLES
  sensor,          \* the controller's sensor fields
  seenValues,      \* controller.seenValues
  lock,            \* controller.lock: Free or the thread holding it
  loopPc,          \* position of the goroutine running Loop
  maxPower,        \* singleLoop's local maxPower
  now,             \* the minute time.Now() showed in this cycle, or NoTime
  loopErr,         \* the value Loop returned, NoError while it runs
  latestEVBudget,  \* main's latestEVBudget, stored by the callback
  reported,        \* last value handed to the Reporter, per topic
  thr,             \* per setter thread: position and updateSensor's locals
  calls,           \* number of setter and getter invocations so far
  getter,          \* per getter thread: position, field and value returned
  dirty,           \* history: a changed value no cycle has computed from yet
  outcome,         \* history: how the last finished singleLoop call ended
  cbErr,           \* history: what the last setEcoPowerLimit call returned
  changes,         \* history: number of setter calls that stored a new value
  cycles,          \* history: number of times c.cond.Wait() has returned
  invoked,         \* charge-mode variant: the callbacks the cycle has invoked
  lastSwitch,      \* charge-mode variant, history: the mode the last cycle
                   \* requested; chargeModeUnknown if it requested none or
                   \* SetCurrentChargeMode was called since
  queue,           \* MQTTReporter.queue: the reports buffered in the channel
  lastSeenValues,  \* MQTTReporter.lastSeenValues: topic -> payload
  publisher,       \* publishLoop: its position and the item it holds
  delivery,        \* history: the select case the last Report call took
  logged           \* the topic of the last "Error publishing" log line

vars == << sensor, seenValues, lock, loopPc, maxPower, now, loopErr,
           latestEVBudget, reported, thr, calls, getter, dirty, outcome, cbErr,
           changes, cycles, invoked, lastSwitch, queue, lastSeenValues,
           publisher, delivery, logged >>

\* The variables only the charge-mode variant changes.
ModeVars == << invoked, lastSwitch >>

\* The variables of the MQTT reporter.
ReporterVars == << queue, lastSeenValues, publisher, delivery, logged >>

\* The variables of the controller.
ControllerVars == << sensor, seenValues, lock, loopPc, maxPower, now, loopErr,
                     latestEVBudget, reported, thr, calls, getter, dirty,
                     outcome, cbErr, changes, cycles, invoked, lastSwitch >>

\* --------------------------------------------------------- pure functions

seen(sv, checks) == \A check \in checks : check \in sv

RECURSIVE maxPowerForTempFrom(_, _)
\* The table walk with "temp >= tempClamp.temp" as its test.
maxPowerForTempFromInclusive(temp, i) ==
  IF i > Len(tempClamps) THEN MaxInt32
  ELSE IF temp >= tempClamps[i].temp THEN volts * tempClamps[i].maxAmps
  ELSE maxPowerForTempFrom(temp, i + 1)

maxPowerForTempFrom(temp, i) ==
  IF i > Len(tempClamps) THEN MaxInt32
  ELSE IF temp > tempClamps[i].temp THEN volts * tempClamps[i].maxAmps
  ELSE maxPowerForTempFrom(temp, i + 1)

maxPowerForTemp(temp) == maxPowerForTempFrom(temp, 1)

\* isOffPeak with the end of the peak window counted as peak.
isOffPeakInclusiveEnd(dayMinute) ==
  ~(dayMinute >= peakRatesStartMinute /\ dayMinute <= peakRatesEndMinute)

isOffPeak(dayMinute) ==
  ~(dayMinute >= peakRatesStartMinute /\ dayMinute < peakRatesEndMinute)

\* The conversion rounding down instead of toward zero.
Int32OfFloatFloor(f) == f \div 10

\* int32(f) for a float64 f held in tenths: the fraction is discarded
\* (truncation toward zero).  Every input value is within int32's range.
Int32OfFloat(f) == IF f >= 0 THEN f \div 10 ELSE -((-f) \div 10)

\* The comparison as ">=".
FloatGreaterOrEqual(f, n) == f >= n * 10

\* c.exportedBatteryW > 200, on tenths.
FloatGreater(f, n) == f > n * 10

\* Whether computeMaxPower reaches its call of time.Now().
readsClock(s, sv) ==
  seen(sv, {"observedStrategy"}) /\ s.controllerStrategy # strategyFullSpeed
    /\ s.controllerStrategy = strategyOffpeak

\* computeMaxPower without its not-enough-data return (lines 259-262 dropped).
computeMaxPowerNoGate(s, sv, t) ==
  LET ceiling == IF seen(sv, {"observedTemp"}) THEN maxPowerForTemp(s.temp)
                 ELSE MaxInt32
  IN IF s.controllerStrategy = strategyFullSpeed THEN ceiling
     ELSE IF s.controllerStrategy = strategyOffpeak
       THEN (IF isOffPeak(t) THEN ceiling ELSE 0)
     ELSE IF seen(sv, {"observedLR"}) /\ s.loadReductionEnabled THEN 0
     ELSE IF seen(sv, {"observedBattery"}) /\ FloatGreater(s.exportedBatteryW, 200)
       THEN 0
     ELSE IF seen(sv, {"observedExportedSolar"})
       THEN (IF ceiling < Int32OfFloat(s.exportedSolarW) THEN ceiling
             ELSE Int32OfFloat(s.exportedSolarW))
     ELSE ceiling

\* computeMaxPower with the full-speed return placed before the temperature
\* clamp (lines 270-272 moved above 264-268).
computeMaxPowerFullSpeedFirst(s, sv, t) ==
  IF ~seen(sv, {"observedStrategy"}) THEN MinInt32
  ELSE IF s.controllerStrategy = strategyFullSpeed THEN MaxInt32
  ELSE computeMaxPowerNoGate(s, sv, t)

\* computeMaxPower with the load-reduction return (lines 285-287) placed
\* before the strategy returns.
computeMaxPowerLRFirst(s, sv, t) ==
  IF ~seen(sv, {"observedStrategy"}) THEN MinInt32
  ELSE IF seen(sv, {"observedLR"}) /\ s.loadReductionEnabled THEN 0
  ELSE computeMaxPowerNoGate(s, sv, t)

\* computeMaxPower without the load-reduction return (lines 285-287 dropped).
computeMaxPowerNoLR(s, sv, t) ==
  IF ~seen(sv, {"observedStrategy"}) THEN MinInt32
  ELSE computeMaxPowerNoGate([s EXCEPT !.loadReductionEnabled = FALSE], sv, t)

\* computeMaxPower without the exported-solar limit (lines 297-303 dropped).
computeMaxPowerNoSolarLimit(s, sv, t) ==
  IF ~seen(sv, {"observedStrategy"}) THEN MinInt32
  ELSE computeMaxPowerNoGate(s, sv \ {"observedExportedSolar"}, t)

\* computeMaxPower reading loadReductionEnabled without c.seen(observedLR)
\* (line 285).
computeMaxPowerTrustsLR(s, sv, t) ==
  IF ~seen(sv, {"observedStrategy"}) THEN MinInt32
  ELSE computeMaxPowerNoGate(s, sv \cup {"observedLR"}, t)

computeMaxPower(s, sv, t) ==
  IF ~seen(sv, {"observedStrategy"}) THEN MinInt32
  ELSE
    LET ceiling == IF seen(sv, {"observedTemp"}) THEN maxPowerForTemp(s.temp)
                   ELSE MaxInt32
    IN IF s.controllerStrategy = strategyFullSpeed THEN ceiling
       ELSE IF s.controllerStrategy = strategyOffpeak
         THEN (IF isOffPeak(t) THEN ceiling ELSE 0)
       ELSE IF seen(sv, {"observedLR"}) /\ s.loadReductionEnabled THEN 0
       ELSE IF seen(sv, {"observedBattery"}) /\ FloatGreater(s.exportedBatteryW, 200)
         THEN 0
       ELSE IF seen(sv, {"observedExportedSolar"})
         THEN (IF ceiling < Int32OfFloat(s.exportedSolarW) THEN ceiling
               ELSE Int32OfFloat(s.exportedSolarW))
       ELSE ceiling

\* The clamps without "if maxPower < 0 { maxPower = 0 }" (lines 325-328).
clampBudgetUpperOnly(p) ==
  IF p > volts * maxAmps THEN volts * maxAmps ELSE p

\* The clamps without "if maxPower > volts*maxAmps" (lines 321-323).
clampBudgetLowerOnly(p) ==
  IF p < 0 THEN 0 ELSE p

\* singleLoop's two clamps, lines 321-328.
clampBudget(p) ==
  LET upper == IF p > volts * maxAmps THEN volts * maxAmps ELSE p
  IN IF upper < 0 THEN 0 ELSE upper

\* ------------------------------------------------------------------ Init

Idle == [pc |-> "idle", field |-> NoValue, value |-> NoValue, obs |-> NoValue,
         shouldNotify |-> FALSE, topic |-> NoValue]

GetterIdle == [pc |-> "idle", field |-> NoValue, result |-> NoValue]

NewController ==
  /\ sensor = [ pwBatteryLevelPercent |-> 0, exportedBatteryW |-> 0,
                exportedSolarW |-> 0, solarW |-> 0, loadW |-> 0,
                operationMode |-> "", temp |-> 0, evseMilliAmp |-> 0,
                evConnected |-> FALSE, loadReductionEnabled |-> FALSE,
                controllerStrategy |-> strategyUnknown ]
  /\ seenValues = {}
  /\ lock = Free

\* The topics the modelled Report calls publish to.
ReporterTopics == { "budget", "evse_current" }

\* No item: publishLoop holds nothing.
NoItem == [topic |-> NoValue, payload |-> << >>]

\* NewMQTTReporter: an empty channel, an empty map (a Go map yields "" for
\* a key it does not hold) and publishLoop started, about to publish the
\* discovery messages.
NewMQTTReporter ==
  /\ queue = << >>
  /\ lastSeenValues = [tp \in ReporterTopics |-> << >>]
  /\ publisher = [pc |-> "discovery", item |-> NoItem]
  /\ delivery = "none"
  /\ logged = NoValue

Init ==
  /\ NewMQTTReporter
  /\ NewController
  /\ loopPc = "begin"
  /\ maxPower = 0
  /\ now = NoTime
  /\ loopErr = NoError
  /\ latestEVBudget = 0
  /\ reported = [tp \in Topics |-> NoValue]
  /\ thr = [t \in SetterThreads |-> Idle]
  /\ calls = 0
  /\ getter = [g \in GetterThreads |-> GetterIdle]
  /\ dirty = FALSE
  /\ outcome = "none"
  /\ cbErr = NoError
  /\ changes = 0
  /\ cycles = 0
  /\ invoked = << >>
  /\ lastSwitch = NoValue

\* --------------------------------------------------------------- setters
\* A setter is modelled from the moment its c.lock.Lock() succeeds: a setter
\* that has been called while another thread holds the lock is blocked in
\* Lock() and has changed nothing yet.

LoopVars == << loopPc, maxPower, now, loopErr, latestEVBudget, outcome, cbErr >>

\* updateSensor without c.lock.Lock(): the store is made without the lock.
updateSensorNoLock(t, field, newValue, obs, topic) ==
  /\ thr[t].pc = "idle"
  /\ calls < MaxCalls
  /\ calls' = calls + 1
  /\ IF sensor[field] # newValue
       THEN /\ sensor' = [sensor EXCEPT ![field] = newValue]
            /\ dirty' = TRUE
            /\ changes' = changes + 1
       ELSE UNCHANGED << sensor, dirty, changes >>
  /\ thr' = [thr EXCEPT ![t] = [pc |-> "mark", field |-> field, value |-> newValue,
                                obs |-> obs, shouldNotify |-> sensor[field] # newValue,
                                topic |-> topic]]
  /\ UNCHANGED << seenValues, lock, LoopVars, reported, getter, cycles, ModeVars, ReporterVars >>

\* updateSensor, lines 121-128: c.lock.Lock(), then
\* if *oldValue != newValue { *oldValue = newValue; shouldNotify = true }
updateSensor(t, field, newValue, obs, topic) ==
  /\ thr[t].pc = "idle"
  /\ calls < MaxCalls
  /\ calls' = calls + 1
  /\ lock = Free
  /\ lock' = t
  /\ IF sensor[field] # newValue
       THEN /\ sensor' = [sensor EXCEPT ![field] = newValue]
            /\ dirty' = TRUE
            /\ changes' = changes + 1
       ELSE UNCHANGED << sensor, dirty, changes >>
  /\ thr' = [thr EXCEPT ![t] = [pc |-> "mark", field |-> field, value |-> newValue,
                                obs |-> obs, shouldNotify |-> sensor[field] # newValue,
                                topic |-> topic]]
  /\ UNCHANGED << seenValues, LoopVars, reported, getter, cycles, ModeVars, ReporterVars >>

SetPowerwallBatteryLevelPercent(t, batt) ==
  updateSensor(t, "pwBatteryLevelPercent", batt, "observedBatteryLevel", NoValue)

SetExportedBatteryW(t, batteryW) ==
  updateSensor(t, "exportedBatteryW", batteryW, "observedBattery", NoValue)

SetExportedSolarW(t, solarW) ==
  updateSensor(t, "exportedSolarW", solarW, "observedExportedSolar", NoValue)

SetSolarW(t, solarW) ==
  updateSensor(t, "solarW", solarW, "observedSolar", NoValue)

SetLoadW(t, loadW) ==
  updateSensor(t, "loadW", loadW, "observedOperationMode", NoValue)

SetOperationMode(t, operationMode) ==
  updateSensor(t, "operationMode", operationMode, "observedLoad", NoValue)

SetLoadReduction(t, enabled) ==
  updateSensor(t, "loadReductionEnabled", enabled, "observedLR", NoValue)

SetControllerStrategy(t, strategy) ==
  updateSensor(t, "controllerStrategy", strategy, "observedStrategy", NoValue)

SetEVSETemp(t, temp) ==
  updateSensor(t, "temp", temp, "observedTemp", "evse_temperature")

SetEVSECurrent(t, milliAmp) ==
  updateSensor(t, "evseMilliAmp", milliAmp, "observedEVCurrent", "evse_current")

SetEVConnected(t, connected) ==
  updateSensor(t, "evConnected", connected, "observedEVConnected", "ev_connected")

\* c.seenValues = obs: the mask replaced instead of extended.
updateSensorMarkReplaces(t) ==
  /\ thr[t].pc = "mark"
  /\ seenValues' = {thr[t].obs}
  /\ thr' = [thr EXCEPT ![t].pc = "signal"]
  /\ UNCHANGED << sensor, lock, LoopVars, reported, calls, getter, dirty, changes, cycles, ModeVars, ReporterVars >>

\* c.seenValues |= obs
updateSensorMark(t) ==
  /\ thr[t].pc = "mark"
  /\ seenValues' = seenValues \cup {thr[t].obs}
  /\ thr' = [thr EXCEPT ![t].pc = "signal"]
  /\ UNCHANGED << sensor, lock, LoopVars, reported, calls, getter, dirty, changes, cycles, ModeVars, ReporterVars >>

\* c.cond.Signal(): wakes the loop if it is blocked in Wait, and is a no-op
\* when nothing waits.
Signal ==
  loopPc' = IF loopPc = "waiting" THEN "woken" ELSE loopPc

\* c.cond.Signal() called whether or not the value changed.
updateSensorSignalAlways(t) ==
  /\ thr[t].pc = "signal"
  /\ Signal
  /\ thr' = [thr EXCEPT ![t].pc = "unlock"]
  /\ UNCHANGED << sensor, seenValues, lock, maxPower, now, loopErr, latestEVBudget,
                  reported, calls, getter, dirty, outcome, cbErr, changes, cycles, ModeVars, ReporterVars >>

\* if shouldNotify { c.cond.Signal() }
updateSensorSignal(t) ==
  /\ thr[t].pc = "signal"
  /\ IF thr[t].shouldNotify THEN Signal ELSE UNCHANGED loopPc
  /\ thr' = [thr EXCEPT ![t].pc = "unlock"]
  /\ UNCHANGED << sensor, seenValues, lock, maxPower, now, loopErr, latestEVBudget,
                  reported, calls, getter, dirty, outcome, cbErr, changes, cycles, ModeVars, ReporterVars >>

\* the deferred c.lock.Unlock(); setters without a reporter call return here.
updateSensorUnlock(t) ==
  /\ thr[t].pc = "unlock"
  /\ lock' = Free
  /\ thr' = [thr EXCEPT ![t] = IF thr[t].topic = NoValue THEN Idle
                               ELSE [thr[t] EXCEPT !.pc = "report"]]
  /\ UNCHANGED << sensor, seenValues, LoopVars, reported, calls, getter, dirty, changes, cycles, ModeVars, ReporterVars >>

\* c.reporter.ReportEVSETemperature / ReportEVSECurrent / ReportEVConnected,
\* called after updateSensor has returned (outside the lock).
setterReport(t) ==
  /\ thr[t].pc = "report"
  /\ reported' = [reported EXCEPT ![thr[t].topic] = thr[t].value]
  /\ thr' = [thr EXCEPT ![t] = Idle]
  /\ UNCHANGED << sensor, seenValues, lock, LoopVars, calls, getter, dirty, changes, cycles, ModeVars, ReporterVars >>

\* --------------------------------------------------------------- getters
GetterFields ==
  { "solarW", "loadW", "pwBatteryLevelPercent", "exportedSolarW",
    "operationMode", "temp", "evseMilliAmp", "evConnected" }

\* A getter that calls c.cond.Signal() after taking the lock.
getterLockSignals(g, field) ==
  /\ getter[g].pc = "idle"
  /\ calls < MaxCalls
  /\ calls' = calls + 1
  /\ lock = Free
  /\ lock' = g
  /\ getter' = [getter EXCEPT ![g] = [pc |-> "read", field |-> field, result |-> NoValue]]
  /\ Signal
  /\ UNCHANGED << sensor, seenValues, maxPower, now, loopErr, latestEVBudget,
                  outcome, cbErr, reported, thr, dirty, changes, cycles, ModeVars, ReporterVars >>

\* c.lock.Lock() of a getter
getterLock(g, field) ==
  /\ getter[g].pc = "idle"
  /\ calls < MaxCalls
  /\ calls' = calls + 1
  /\ lock = Free
  /\ lock' = g
  /\ getter' = [getter EXCEPT ![g] = [pc |-> "read", field |-> field, result |-> NoValue]]
  /\ UNCHANGED << sensor, seenValues, LoopVars, reported, thr, dirty, changes, cycles, ModeVars, ReporterVars >>

\* return c.<field>, with the deferred unlock
getterReturn(g) ==
  /\ getter[g].pc = "read"
  /\ getter' = [getter EXCEPT ![g] = [pc |-> "idle", field |-> getter[g].field,
                                      result |-> sensor[getter[g].field]]]
  /\ lock' = Free
  /\ UNCHANGED << sensor, seenValues, LoopVars, reported, thr, calls, dirty, changes, cycles, ModeVars, ReporterVars >>

\* ------------------------------------------------------------- the loop
\* singleLoop: c.lock.Lock()
singleLoopLock ==
  /\ loopPc = "begin"
  /\ lock = Free
  /\ lock' = LoopThread
  /\ loopPc' = "locked"
  /\ UNCHANGED << sensor, seenValues, maxPower, now, loopErr, latestEVBudget,
                  reported, thr, calls, getter, dirty, outcome, cbErr, changes, cycles, ModeVars, ReporterVars >>

\* c.cond.Wait(): enqueue as waiter and release the lock, in one step
singleLoopWait ==
  /\ loopPc = "locked"
  /\ lock' = Free
  /\ loopPc' = "waiting"
  /\ UNCHANGED << sensor, seenValues, maxPower, now, loopErr, latestEVBudget,
                  reported, thr, calls, getter, dirty, outcome, cbErr, changes, cycles, ModeVars, ReporterVars >>

\* Wait returning without re-acquiring the lock.
singleLoopWakeNoLock ==
  /\ loopPc = "woken"
  /\ loopPc' = "compute"
  /\ cycles' = cycles + 1
  /\ UNCHANGED << sensor, seenValues, lock, maxPower, now, loopErr, latestEVBudget,
                  reported, thr, calls, getter, dirty, outcome, cbErr, changes,
                  ModeVars, ReporterVars >>

\* c.cond.Wait() returning: the signalled waiter re-acquires the lock
singleLoopWake ==
  /\ loopPc = "woken"
  /\ lock = Free
  /\ lock' = LoopThread
  /\ loopPc' = "compute"
  /\ cycles' = cycles + 1
  /\ UNCHANGED << sensor, seenValues, maxPower, now, loopErr, latestEVBudget,
                  reported, thr, calls, getter, dirty, outcome, cbErr, changes,
                  ModeVars, ReporterVars >>

\* A compute step that consumes the exported-solar reading it used, clearing
\* its observed bit.
singleLoopComputeConsumes ==
  /\ loopPc = "compute"
  /\ \E t \in (IF readsClock(sensor, seenValues) THEN Minutes ELSE {NoTime}) :
       LET raw == computeMaxPower(sensor, seenValues, t)
       IN IF raw < minSitePowerW
            THEN /\ loopPc' = "begin"
                 /\ lock' = Free
                 /\ maxPower' = 0
                 /\ now' = NoTime
                 /\ outcome' = "skipped"
            ELSE /\ loopPc' = "report"
                 /\ maxPower' = clampBudget(raw)
                 /\ now' = t
                 /\ UNCHANGED << lock, outcome >>
  /\ dirty' = FALSE
  /\ seenValues' = seenValues \ {"observedExportedSolar"}
  /\ UNCHANGED << sensor, loopErr, latestEVBudget, reported, thr,
                  calls, getter, cbErr, changes, cycles, ModeVars, ReporterVars >>

\* maxPower := c.computeMaxPower(), the not-enough-data return and the clamps
singleLoopCompute ==
  /\ loopPc = "compute"
  /\ \E t \in (IF readsClock(sensor, seenValues) THEN Minutes ELSE {NoTime}) :
       LET raw == computeMaxPower(sensor, seenValues, t)
       IN IF raw < minSitePowerW
            THEN /\ loopPc' = "begin"
                 /\ lock' = Free
                 /\ maxPower' = 0
                 /\ now' = NoTime
                 /\ outcome' = "skipped"
            ELSE /\ loopPc' = "report"
                 /\ maxPower' = clampBudget(raw)
                 /\ now' = t
                 /\ UNCHANGED << lock, outcome >>
  /\ dirty' = FALSE
  /\ UNCHANGED << sensor, seenValues, loopErr, latestEVBudget, reported, thr,
                  calls, getter, cbErr, changes, cycles, ModeVars, ReporterVars >>

\* ReportBudget followed by an early unlock, so that the callback runs
\* outside the lock.
singleLoopReportUnlocks ==
  /\ loopPc = "report"
  /\ reported' = [reported EXCEPT !["budget"] = maxPower]
  /\ loopPc' = "callback"
  /\ lock' = Free
  /\ UNCHANGED << sensor, seenValues, maxPower, now, loopErr, latestEVBudget,
                  thr, calls, getter, dirty, outcome, cbErr, changes, cycles, ModeVars, ReporterVars >>

\* singleLoop without the ReportBudget call of line 330.
singleLoopReportOmitted ==
  /\ loopPc = "report"
  /\ loopPc' = "callback"
  /\ UNCHANGED << sensor, seenValues, lock, maxPower, now, loopErr, latestEVBudget,
                  reported, thr, calls, getter, dirty, outcome, cbErr, changes,
                  cycles, ModeVars, ReporterVars >>

\* c.reporter.ReportBudget(maxPower); the callback is invoked next
singleLoopReport ==
  /\ loopPc = "report"
  /\ reported' = [reported EXCEPT !["budget"] = maxPower]
  /\ loopPc' = "callback"
  /\ UNCHANGED << sensor, seenValues, lock, maxPower, now, loopErr, latestEVBudget,
                  thr, calls, getter, dirty, outcome, cbErr, changes, cycles, ModeVars, ReporterVars >>

\* Loop ignoring the error singleLoop returns.
singleLoopCallbackSwallow(err) ==
  /\ loopPc = "callback"
  /\ latestEVBudget' = maxPower
  /\ lock' = Free
  /\ loopPc' = "begin"
  /\ UNCHANGED loopErr
  /\ cbErr' = err
  /\ outcome' = "dispatched"
  /\ maxPower' = 0
  /\ now' = NoTime
  /\ UNCHANGED << sensor, seenValues, reported, thr, calls, getter, dirty, changes, cycles, ModeVars, ReporterVars >>

\* c.setEcoPowerLimit(maxPower) runs (main's closure stores latestEVBudget and
\* publishes) and returns err; the deferred unlock; Loop returns err if it is
\* not nil and calls singleLoop again otherwise.
singleLoopCallback(err) ==
  /\ loopPc = "callback"
  /\ latestEVBudget' = maxPower
  /\ lock' = Free
  /\ IF err # NoError
       THEN loopPc' = "returned" /\ loopErr' = err
       ELSE loopPc' = "begin" /\ UNCHANGED loopErr
  /\ cbErr' = err
  /\ outcome' = "dispatched"
  /\ maxPower' = 0
  /\ now' = NoTime
  /\ UNCHANGED << sensor, seenValues, reported, thr, calls, getter, dirty, changes, cycles, ModeVars, ReporterVars >>

Loop ==
  \/ singleLoopLock
  \/ singleLoopWait
  \/ singleLoopWake
  \/ singleLoopCompute
  \/ singleLoopReport
  \/ \E err \in {NoError} \cup Errors : singleLoopCallback(err)

\* ------------------------------------------------------------------ Next

\* One setter call of main's polling loop.  The order of the calls within a
\* polling round is left open.
PollerCall ==
  \/ \E v \in BOOLEAN : SetLoadReduction(Poller, v)
  \/ \E v \in ExportedSolarValues : SetExportedSolarW(Poller, v)
  \/ \E v \in WattValues : SetLoadW(Poller, v)
  \/ \E v \in WattValues : SetSolarW(Poller, v)
  \/ \E v \in ExportedBatteryValues : SetExportedBatteryW(Poller, v)
  \/ \E v \in PercentValues : SetPowerwallBatteryLevelPercent(Poller, v)
  \/ \E v \in OperationModeValues : SetOperationMode(Poller, v)
  \/ \E v \in TempValues : SetEVSETemp(Poller, v)
  \/ \E v \in MilliAmpValues : SetEVSECurrent(Poller, v)
  \/ \E v \in BOOLEAN : SetEVConnected(Poller, v)

\* The MQTT handler of the charge-strategy topic.
SubscriberCall ==
  \E v \in StrategyValues : SetControllerStrategy(Subscriber, v)

SetterStep(t) ==
  \/ updateSensorMark(t)
  \/ updateSensorSignal(t)
  \/ updateSensorUnlock(t)
  \/ setterReport(t)

Getter(g) ==
  \/ \E f \in GetterFields : getterLock(g, f)
  \/ getterReturn(g)

Next ==
  \/ PollerCall
  \/ SubscriberCall
  \/ \E t \in SetterThreads : SetterStep(t)
  \/ \E g \in GetterThreads : Getter(g)
  \/ Loop

Spec == Init /\ [][Next]_vars

\* ------------------------------------------- one cycle on every snapshot
\* The decision of one cycle depends only on the snapshot it reads under the
\* lock: the five decision sensors, their observed bits and the wall clock.
\* SnapshotSpec starts a cycle at its call of computeMaxPower on every snapshot
\* the setters can have produced: a sensor whose setter was never called has
\* its bit clear and holds NewController's zero value.

SnapshotTemps == {0} \cup ((45 * Celsius + 5) .. (50 * Celsius + 5))
SnapshotExportedSolar == { -1000010, -1000000, -55, 0, 25000, 25005, 200000 }
SnapshotExportedBattery == { 0, 2000, 2005 }
SnapshotMinutes == { 0, 959, 960, 1259, 1260, 1439 }

\* The values a sensor can hold: any value once observed, its zero otherwise.
Observable(isSeen, values, zero) == IF isSeen THEN values ELSE {zero}

SnapshotInit ==
  /\ NewMQTTReporter
  /\ \E sv \in SUBSET { "observedStrategy", "observedTemp", "observedLR",
                        "observedBattery", "observedExportedSolar" } :
       /\ seenValues = sv
       /\ \E st \in Observable("observedStrategy" \in sv, StrategyValues,
                               strategyUnknown),
             tp \in Observable("observedTemp" \in sv, SnapshotTemps, 0),
             lr \in Observable("observedLR" \in sv, BOOLEAN, FALSE),
             eb \in Observable("observedBattery" \in sv,
                               SnapshotExportedBattery, 0),
             es \in Observable("observedExportedSolar" \in sv,
                               SnapshotExportedSolar, 0) :
            sensor = [ pwBatteryLevelPercent |-> 0, exportedBatteryW |-> eb,
                       exportedSolarW |-> es, solarW |-> 0, loadW |-> 0,
                       operationMode |-> "", temp |-> tp, evseMilliAmp |-> 0,
                       evConnected |-> FALSE, loadReductionEnabled |-> lr,
                       controllerStrategy |-> st ]
  /\ now \in SnapshotMinutes
  /\ lock = LoopThread
  /\ loopPc = "compute"
  /\ maxPower = 0
  /\ loopErr = NoError
  /\ latestEVBudget = 0
  /\ reported = [tp \in Topics |-> NoValue]
  /\ thr = [t \in SetterThreads |-> Idle]
  /\ calls = 0
  /\ getter = [g \in GetterThreads |-> GetterIdle]
  /\ dirty = TRUE
  /\ outcome = "none"
  /\ cbErr = NoError
  /\ changes = 1
  /\ cycles = 1
  /\ invoked = << >>
  /\ lastSwitch = NoValue

\* maxPower := c.computeMaxPower(), line 313.
snapshotCompute ==
  /\ loopPc = "compute"
  /\ maxPower' = computeMaxPower(sensor, seenValues, now)
  /\ loopPc' = "computed"
  /\ UNCHANGED << sensor, seenValues, lock, now, loopErr, latestEVBudget,
                  reported, thr, calls, getter, dirty, outcome, cbErr, changes,
                  cycles, ModeVars, ReporterVars >>

\* The not-enough-data return and the two clamps, lines 315-328.
snapshotClamp ==
  /\ loopPc = "computed"
  /\ IF maxPower < minSitePowerW
       THEN /\ loopPc' = "skipped"
            /\ lock' = Free
            /\ outcome' = "skipped"
            /\ UNCHANGED maxPower
       ELSE /\ loopPc' = "clamped"
            /\ maxPower' = clampBudget(maxPower)
            /\ UNCHANGED << lock, outcome >>
  /\ dirty' = FALSE
  /\ UNCHANGED << sensor, seenValues, now, loopErr, latestEVBudget, reported,
                  thr, calls, getter, cbErr, changes, cycles, ModeVars, ReporterVars >>

SnapshotNext == snapshotCompute \/ snapshotClamp

SnapshotSpec == SnapshotInit /\ [][SnapshotNext]_vars

\* ------------------------------------------------- the overnight variant
\* The second controller of src/controller.go (lines 342-651): strategies
\* auto, full-speed and overnight, an EV battery level sensor, and a
\* singleLoop that hands float64(maxPower) to setEcoPowerLimit.  Its seen,
\* tempClamps and maxPowerForTemp (lines 395-404, 549-570) are the text of the
\* first controller's and are modelled by the same operators.  OvernightSpec
\* runs one cycle of it on every snapshot its setters can have produced.

strategyAuto == 1
strategyOvernight == 3

OvernightStrategies == { strategyAuto, strategyFullSpeed, strategyOvernight }
OvernightTemps == { 0, 46 * Celsius + 5, 50 * Celsius + 5 }
OvernightExportedSolar == { -1000010, -55, 0, 25005, 200000 }
OvernightExportedBattery == { 0, 2000, 2005 }
\* EV battery level, a float64 percentage, in tenths.
EVBatteryValues == { 0, 595, 600, 1000 }
\* Minutes of the day the wall clock may show.
OvernightMinutes == { 0, 359, 360, 1439 }

\* time.Time.Hour() of a time at the given minute of the day.
Hour(dayMinute) == dayMinute \div 60

\* c.evBatteryLevelPercent < 60, on tenths.
FloatLess(f, n) == f < n * 10

\* The rules below the overnight return, lines 592-621, with the EV battery
\* test placed before the load-reduction and battery-export returns.
overnightLadderEVFirst(s, sv, ceiling) ==
  IF seen(sv, {"observedEVBattery"}) /\ FloatLess(s.evBatteryLevelPercent, 60)
    THEN ceiling
  ELSE IF seen(sv, {"observedLR"}) /\ s.loadReductionEnabled THEN 0
  ELSE IF seen(sv, {"observedBattery"}) /\ FloatGreater(s.exportedBatteryW, 200)
    THEN 0
  ELSE IF seen(sv, {"observedExportedSolar"})
    THEN (IF ceiling < Int32OfFloat(s.exportedSolarW) THEN ceiling
          ELSE Int32OfFloat(s.exportedSolarW))
  ELSE ceiling

\* The rules below the overnight return: lines 592-621.
overnightLadder(s, sv, ceiling) ==
  IF seen(sv, {"observedLR"}) /\ s.loadReductionEnabled THEN 0
  ELSE IF seen(sv, {"observedBattery"}) /\ FloatGreater(s.exportedBatteryW, 200)
    THEN 0
  ELSE IF seen(sv, {"observedEVBattery"})
          /\ FloatLess(s.evBatteryLevelPercent, 60)
    THEN ceiling
  ELSE IF seen(sv, {"observedExportedSolar"})
    THEN (IF ceiling < Int32OfFloat(s.exportedSolarW) THEN ceiling
          ELSE Int32OfFloat(s.exportedSolarW))
  ELSE ceiling

\* computeMaxPower with the overnight strategy returning 0 from 6 o'clock on,
\* as an off-peak window would.
computeMaxPowerOvernightZeroByDay(s, sv, t) ==
  IF ~seen(sv, {"observedStrategy"}) THEN MinInt32
  ELSE
    LET ceiling == IF seen(sv, {"observedTemp"}) THEN maxPowerForTemp(s.temp)
                   ELSE MaxInt32
    IN IF s.controllerStrategy = strategyFullSpeed THEN ceiling
       ELSE IF s.controllerStrategy = strategyOvernight
         THEN (IF Hour(t) < 6 THEN ceiling ELSE 0)
       ELSE overnightLadder(s, sv, ceiling)

\* computeMaxPower of the overnight variant, lines 572-622.
computeMaxPowerOvernight(s, sv, t) ==
  IF ~seen(sv, {"observedStrategy"}) THEN MinInt32
  ELSE
    LET ceiling == IF seen(sv, {"observedTemp"}) THEN maxPowerForTemp(s.temp)
                   ELSE MaxInt32
    IN IF s.controllerStrategy = strategyFullSpeed THEN ceiling
       ELSE IF s.controllerStrategy = strategyOvernight /\ Hour(t) < 6
         THEN ceiling
       ELSE overnightLadder(s, sv, ceiling)

\* The one clamp of the overnight singleLoop, lines 637-639.
clampOvernight(p) ==
  IF p > volts * maxAmps THEN volts * maxAmps ELSE p

\* float64(maxPower), in tenths.
FloatOfInt32(p) == p * 10

OvernightInit ==
  /\ NewMQTTReporter
  /\ \E sv \in SUBSET { "observedStrategy", "observedTemp", "observedLR",
                        "observedBattery", "observedEVBattery",
                        "observedExportedSolar" } :
       /\ seenValues = sv
       /\ \E st \in Observable("observedStrategy" \in sv, OvernightStrategies,
                               strategyUnknown),
             tp \in Observable("observedTemp" \in sv, OvernightTemps, 0),
             lr \in Observable("observedLR" \in sv, BOOLEAN, FALSE),
             eb \in Observable("observedBattery" \in sv,
                               OvernightExportedBattery, 0),
             ev \in Observable("observedEVBattery" \in sv, EVBatteryValues, 0),
             es \in Observable("observedExportedSolar" \in sv,
                               OvernightExportedSolar, 0) :
            sensor = [ evBatteryLevelPercent |-> ev,
                       pwBatteryLevelPercent |-> 0, exportedBatteryW |-> eb,
                       exportedSolarW |-> es, solarW |-> 0, loadW |-> 0,
                       operationMode |-> "", temp |-> tp, evseMilliAmp |-> 0,
                       evConnected |-> FALSE, loadReductionEnabled |-> lr,
                       controllerStrategy |-> st ]
  /\ now \in OvernightMinutes
  /\ lock = LoopThread
  /\ loopPc = "compute"
  /\ maxPower = 0
  /\ loopErr = NoError
  /\ latestEVBudget = NoValue
  /\ reported = [tp \in Topics |-> NoValue]
  /\ thr = [t \in SetterThreads |-> Idle]
  /\ calls = 0
  /\ getter = [g \in GetterThreads |-> GetterIdle]
  /\ dirty = TRUE
  /\ outcome = "none"
  /\ cbErr = NoError
  /\ changes = 1
  /\ cycles = 1
  /\ invoked = << >>
  /\ lastSwitch = NoValue

\* maxPower := c.computeMaxPower(), line 630.
overnightCompute ==
  /\ loopPc = "compute"
  /\ maxPower' = computeMaxPowerOvernight(sensor, seenValues, now)
  /\ loopPc' = "computed"
  /\ UNCHANGED << sensor, seenValues, lock, now, loopErr, latestEVBudget,
                  reported, thr, calls, getter, dirty, outcome, cbErr, changes,
                  cycles, ModeVars, ReporterVars >>

\* The not-enough-data return and the clamp, lines 632-639.
overnightClamp ==
  /\ loopPc = "computed"
  /\ IF maxPower < minSitePowerW
       THEN /\ loopPc' = "skipped"
            /\ lock' = Free
            /\ outcome' = "skipped"
            /\ UNCHANGED maxPower
       ELSE /\ loopPc' = "callback"
            /\ maxPower' = clampOvernight(maxPower)
            /\ UNCHANGED << lock, outcome >>
  /\ dirty' = FALSE
  /\ UNCHANGED << sensor, seenValues, now, loopErr, latestEVBudget, reported,
                  thr, calls, getter, cbErr, changes, cycles, ModeVars, ReporterVars >>

\* return c.setEcoPowerLimit(float64(maxPower)), line 641, with the deferred
\* unlock; latestEVBudget is the argument the callback received.
overnightCallback(err) ==
  /\ loopPc = "callback"
  /\ latestEVBudget' = FloatOfInt32(maxPower)
  /\ cbErr' = err
  /\ outcome' = "dispatched"
  /\ lock' = Free
  /\ IF err = NoError
       THEN loopPc' = "begin" /\ UNCHANGED loopErr
       ELSE loopPc' = "returned" /\ loopErr' = err
  /\ UNCHANGED << sensor, seenValues, maxPower, now, reported, thr, calls,
                  getter, dirty, changes, cycles, ModeVars, ReporterVars >>

OvernightNext ==
  \/ overnightCompute
  \/ overnightClamp
  \/ \E err \in {NoError} \cup Errors : overnightCallback(err)

OvernightSpec == OvernightInit /\ [][OvernightNext]_vars

\* ----------------------------------------------- the charge-mode variant
\* The controller of src/unnamed/part_000: strategies auto and full-speed, a
\* stored current charge mode, one temperature cutoff, and a singleLoop that
\* switches the charger between Eco and Fast through setChargeMode before it
\* sets the eco power limit.  In this variant observedBattery is the bit of
\* the EV battery level and observedSolar the bit of the exported solar power.

chargeModeUnknown == 0
chargeModeEco == 1
chargeModeFast == 2

minAmps == 8
maxTemp == 450

ChargeModeStrategies == { strategyAuto, strategyFullSpeed }
ChargeModes == { chargeModeUnknown, chargeModeEco, chargeModeFast }
ChargeModeExportedSolar == { -55, 25005, 200000 }
ChargeModeEVBattery == { 595, 600 }
ChargeModeTemps == { maxTemp, maxTemp + 1 }

\* computeMaxPower of the charge-mode variant gated on the strategy alone
\* (observedChargeMode dropped from line 123).
computeMaxPowerChargeModeStrategyOnly(s, sv) ==
  IF ~seen(sv, {"observedStrategy"}) THEN MinInt32
  ELSE
    LET ceiling == IF seen(sv, {"observedTemp"}) /\ s.tempDeciCelsius > maxTemp
                     THEN volts * minAmps
                     ELSE MaxInt32
    IN IF s.controllerStrategy = strategyFullSpeed THEN ceiling
       ELSE IF seen(sv, {"observedLR"}) /\ s.loadReductionEnabled THEN 0
       ELSE IF seen(sv, {"observedBattery"})
               /\ FloatLess(s.evBatteryLevelPercent, 60)
         THEN ceiling
       ELSE IF seen(sv, {"observedSolar"})
         THEN (IF ceiling < Int32OfFloat(s.exportedSolarW) THEN ceiling
               ELSE Int32OfFloat(s.exportedSolarW))
       ELSE ceiling

\* computeMaxPower of the charge-mode variant with the cutoff tested as
\* "c.tempDeciCelsius >= maxTemp" (line 131).
computeMaxPowerChargeModeInclusiveCutoff(s, sv) ==
  IF ~seen(sv, {"observedStrategy", "observedChargeMode"}) THEN MinInt32
  ELSE
    LET ceiling == IF seen(sv, {"observedTemp"}) /\ s.tempDeciCelsius >= maxTemp
                     THEN volts * minAmps
                     ELSE MaxInt32
    IN IF s.controllerStrategy = strategyFullSpeed THEN ceiling
       ELSE IF seen(sv, {"observedLR"}) /\ s.loadReductionEnabled THEN 0
       ELSE IF seen(sv, {"observedBattery"})
               /\ FloatLess(s.evBatteryLevelPercent, 60)
         THEN ceiling
       ELSE IF seen(sv, {"observedSolar"})
         THEN (IF ceiling < Int32OfFloat(s.exportedSolarW) THEN ceiling
               ELSE Int32OfFloat(s.exportedSolarW))
       ELSE ceiling

\* computeMaxPower of the charge-mode variant, lines 122-168, without the
\* reason string it returns for the log.
computeMaxPowerChargeMode(s, sv) ==
  IF ~seen(sv, {"observedStrategy", "observedChargeMode"}) THEN MinInt32
  ELSE
    LET ceiling == IF seen(sv, {"observedTemp"}) /\ s.tempDeciCelsius > maxTemp
                     THEN volts * minAmps
                     ELSE MaxInt32
    IN IF s.controllerStrategy = strategyFullSpeed THEN ceiling
       ELSE IF seen(sv, {"observedLR"}) /\ s.loadReductionEnabled THEN 0
       ELSE IF seen(sv, {"observedBattery"})
               /\ FloatLess(s.evBatteryLevelPercent, 60)
         THEN ceiling
       ELSE IF seen(sv, {"observedSolar"})
         THEN (IF ceiling < Int32OfFloat(s.exportedSolarW) THEN ceiling
               ELSE Int32OfFloat(s.exportedSolarW))
       ELSE ceiling

\* The argument of the setChargeMode call among the given calls,
\* chargeModeUnknown, which is never requested, when there is none.
Requested(calls_) ==
  IF \E i \in 1..Len(calls_) : calls_[i].fn = "setChargeMode"
    THEN (CHOOSE c \in { calls_[i] : i \in 1..Len(calls_) } :
            c.fn = "setChargeMode").arg
    ELSE chargeModeUnknown

ChargeModeInit ==
  /\ NewMQTTReporter
  /\ sensor = [ evBatteryLevelPercent |-> 0, exportedSolarW |-> 0,
                tempDeciCelsius |-> 0, loadReductionEnabled |-> FALSE,
                controllerStrategy |-> strategyUnknown,
                currentChargeMode |-> chargeModeUnknown ]
  /\ seenValues = {}
  /\ lock = Free
  /\ loopPc = "begin"
  /\ maxPower = 0
  /\ now = NoTime
  /\ loopErr = NoError
  /\ latestEVBudget = NoValue
  /\ reported = [tp \in Topics |-> NoValue]
  /\ thr = [t \in SetterThreads |-> Idle]
  /\ calls = 0
  /\ getter = [g \in GetterThreads |-> GetterIdle]
  /\ dirty = FALSE
  /\ outcome = "none"
  /\ cbErr = NoError
  /\ changes = 0
  /\ cycles = 0
  /\ invoked = << >>
  /\ lastSwitch = chargeModeUnknown

\* updateSensor, lines 73-86, from Lock to the deferred Unlock: the lock is
\* held throughout, so no other thread sees a state in between.
chargeModeUpdateSensor(field, newValue, obs) ==
  /\ calls < MaxModeCalls
  /\ calls' = calls + 1
  /\ lock = Free
  /\ sensor' = [sensor EXCEPT ![field] = newValue]
  /\ seenValues' = seenValues \cup {obs}
  /\ IF sensor[field] # newValue
       THEN Signal /\ changes' = changes + 1 /\ dirty' = TRUE
       ELSE UNCHANGED << loopPc, changes, dirty >>
  /\ lastSwitch' = IF field = "currentChargeMode" THEN chargeModeUnknown ELSE lastSwitch
  /\ UNCHANGED << ReporterVars, lock, maxPower, now, loopErr, latestEVBudget, reported, thr,
                  getter, outcome, cbErr, cycles, invoked >>

SetCurrentChargeMode(mode) ==
  chargeModeUpdateSensor("currentChargeMode", mode, "observedChargeMode")

SetEVSETempDeciCelsius(temp) ==
  chargeModeUpdateSensor("tempDeciCelsius", temp, "observedTemp")

SetEVBatteryLevelPercent(batt) ==
  chargeModeUpdateSensor("evBatteryLevelPercent", batt, "observedBattery")

chargeModeSetExportedSolarW(solarW) ==
  chargeModeUpdateSensor("exportedSolarW", solarW, "observedSolar")

chargeModeSetLoadReduction(enabled) ==
  chargeModeUpdateSensor("loadReductionEnabled", enabled, "observedLR")

chargeModeSetControllerStrategy(strategy) ==
  chargeModeUpdateSensor("controllerStrategy", strategy, "observedStrategy")

ChargeModeSetters ==
  \/ \E v \in ChargeModes : SetCurrentChargeMode(v)
  \/ \E v \in ChargeModeTemps : SetEVSETempDeciCelsius(v)
  \/ \E v \in ChargeModeEVBattery : SetEVBatteryLevelPercent(v)
  \/ \E v \in ChargeModeExportedSolar : chargeModeSetExportedSolarW(v)
  \/ \E v \in BOOLEAN : chargeModeSetLoadReduction(v)
  \/ \E v \in ChargeModeStrategies : chargeModeSetControllerStrategy(v)

\* singleLoop: c.lock.Lock(), line 171.
chargeModeLock ==
  /\ loopPc = "begin"
  /\ lock = Free
  /\ lock' = LoopThread
  /\ loopPc' = "locked"
  /\ UNCHANGED << sensor, seenValues, maxPower, now, loopErr, latestEVBudget,
                  reported, thr, calls, getter, dirty, outcome, cbErr, changes,
                  cycles, ModeVars, ReporterVars >>

\* c.cond.Wait(), line 172: enqueue as waiter and release the lock.
chargeModeWait ==
  /\ loopPc = "locked"
  /\ lock' = Free
  /\ loopPc' = "waiting"
  /\ UNCHANGED << sensor, seenValues, maxPower, now, loopErr, latestEVBudget,
                  reported, thr, calls, getter, dirty, outcome, cbErr, changes,
                  cycles, ModeVars, ReporterVars >>

\* c.cond.Wait() returning: the signalled waiter re-acquires the lock.
chargeModeWake ==
  /\ loopPc = "woken"
  /\ lock = Free
  /\ lock' = LoopThread
  /\ loopPc' = "compute"
  /\ cycles' = cycles + 1
  /\ invoked' = << >>
  /\ UNCHANGED << ReporterVars, sensor, seenValues, maxPower, now, loopErr, latestEVBudget,
                  reported, thr, calls, getter, dirty, outcome, cbErr, changes,
                  lastSwitch >>

\* singleLoop returning err, with the deferred unlock; Loop returns a non-nil
\* error and calls singleLoop again otherwise (lines 202-208).
chargeModeReturn(err) ==
  /\ lock' = Free
  /\ cbErr' = err
  /\ IF err = NoError
       THEN loopPc' = "begin" /\ UNCHANGED loopErr
       ELSE loopPc' = "returned" /\ loopErr' = err

\* maxPower, reason := c.computeMaxPower() and the not-enough-data return,
\* lines 176-181.
chargeModeCompute ==
  /\ loopPc = "compute"
  /\ maxPower' = computeMaxPowerChargeMode(sensor, seenValues)
  /\ dirty' = FALSE
  /\ IF maxPower' < minSitePowerW
       THEN /\ chargeModeReturn(NoError)
            /\ outcome' = "skipped"
            /\ lastSwitch' = chargeModeUnknown
       ELSE /\ loopPc' = "mode"
            /\ UNCHANGED << lock, cbErr, loopErr, outcome, lastSwitch >>
  /\ UNCHANGED << ReporterVars, sensor, seenValues, now, latestEVBudget, reported, thr,
                  calls, getter, changes, cycles, invoked >>

\* The mode switch with the error of setChargeMode(chargeModeEco) dropped:
\* the eco limit is set whatever the switch returned.
chargeModeSwitchIgnoresError(err) ==
  /\ loopPc = "mode"
  /\ IF maxPower > volts * maxAmps
       THEN IF sensor.currentChargeMode # chargeModeFast
              THEN /\ invoked' = Append(invoked, [fn |-> "setChargeMode",
                                                  arg |-> chargeModeFast,
                                                  err |-> err])
                   /\ chargeModeReturn(err)
                   /\ lastSwitch' = chargeModeFast
              ELSE /\ err = NoError
                   /\ chargeModeReturn(NoError)
                   /\ lastSwitch' = chargeModeUnknown
                   /\ UNCHANGED invoked
       ELSE IF sensor.currentChargeMode # chargeModeEco
              THEN /\ invoked' = Append(invoked, [fn |-> "setChargeMode",
                                                  arg |-> chargeModeEco,
                                                  err |-> err])
                   /\ loopPc' = "limit"
                   /\ UNCHANGED << lock, cbErr, loopErr, lastSwitch >>
              ELSE /\ err = NoError
                   /\ loopPc' = "limit"
                   /\ UNCHANGED << lock, cbErr, loopErr, invoked, lastSwitch >>
  /\ outcome' = "dispatched"
  /\ UNCHANGED << ReporterVars, sensor, seenValues, maxPower, now, latestEVBudget, reported,
                  thr, calls, getter, dirty, changes, cycles >>

\* The mode switch that stores the mode it has set: after a successful
\* setChargeMode(m) the controller's currentChargeMode is m.
chargeModeSwitchRemembers(err) ==
  /\ loopPc = "mode"
  /\ IF maxPower > volts * maxAmps
       THEN IF sensor.currentChargeMode # chargeModeFast
              THEN /\ invoked' = Append(invoked, [fn |-> "setChargeMode",
                                                  arg |-> chargeModeFast,
                                                  err |-> err])
                   /\ chargeModeReturn(err)
                   /\ lastSwitch' = chargeModeFast
                   /\ sensor' = IF err = NoError
                                  THEN [sensor EXCEPT !.currentChargeMode
                                                         = chargeModeFast]
                                  ELSE sensor
              ELSE /\ err = NoError
                   /\ chargeModeReturn(NoError)
                   /\ lastSwitch' = chargeModeUnknown
                   /\ UNCHANGED << invoked, sensor >>
       ELSE IF sensor.currentChargeMode # chargeModeEco
              THEN /\ invoked' = Append(invoked, [fn |-> "setChargeMode",
                                                  arg |-> chargeModeEco,
                                                  err |-> err])
                   /\ IF err # NoError
                        THEN /\ chargeModeReturn(err)
                             /\ lastSwitch' = chargeModeEco
                             /\ UNCHANGED sensor
                        ELSE /\ loopPc' = "limit"
                             /\ sensor' = [sensor EXCEPT !.currentChargeMode
                                                            = chargeModeEco]
                             /\ UNCHANGED << lock, cbErr, loopErr, lastSwitch >>
              ELSE /\ err = NoError
                   /\ loopPc' = "limit"
                   /\ UNCHANGED << lock, cbErr, loopErr, invoked, lastSwitch,
                                   sensor >>
  /\ outcome' = "dispatched"
  /\ UNCHANGED << ReporterVars, seenValues, maxPower, now, latestEVBudget, reported,
                  thr, calls, getter, dirty, changes, cycles >>

\* Lines 183-197: above volts*maxAmps the cycle asks for Fast mode, unless the
\* stored mode is Fast, and returns; otherwise it asks for Eco mode, unless
\* the stored mode is Eco, and returns the error of a failed switch.
chargeModeSwitch(err) ==
  /\ loopPc = "mode"
  /\ IF maxPower > volts * maxAmps
       THEN IF sensor.currentChargeMode # chargeModeFast
              THEN /\ invoked' = Append(invoked, [fn |-> "setChargeMode",
                                                  arg |-> chargeModeFast,
                                                  err |-> err])
                   /\ chargeModeReturn(err)
                   /\ lastSwitch' = chargeModeFast
              ELSE /\ err = NoError
                   /\ chargeModeReturn(NoError)
                   /\ lastSwitch' = chargeModeUnknown
                   /\ UNCHANGED invoked
       ELSE IF sensor.currentChargeMode # chargeModeEco
              THEN /\ invoked' = Append(invoked, [fn |-> "setChargeMode",
                                                  arg |-> chargeModeEco,
                                                  err |-> err])
                   /\ IF err # NoError
                        THEN /\ chargeModeReturn(err)
                             /\ lastSwitch' = chargeModeEco
                        ELSE /\ loopPc' = "limit"
                             /\ UNCHANGED << lock, cbErr, loopErr, lastSwitch >>
              ELSE /\ err = NoError
                   /\ loopPc' = "limit"
                   /\ UNCHANGED << lock, cbErr, loopErr, invoked, lastSwitch >>
  /\ outcome' = "dispatched"
  /\ UNCHANGED << ReporterVars, sensor, seenValues, maxPower, now, latestEVBudget, reported,
                  thr, calls, getter, dirty, changes, cycles >>

\* return c.setEcoPowerLimit(float64(maxPower)), line 199.
chargeModeLimit(err) ==
  /\ loopPc = "limit"
  /\ invoked' = Append(invoked, [fn |-> "setEcoPowerLimit",
                                 arg |-> FloatOfInt32(maxPower), err |-> err])
  /\ chargeModeReturn(err)
  /\ lastSwitch' = Requested(invoked)
  /\ UNCHANGED << ReporterVars, sensor, seenValues, maxPower, now, latestEVBudget, reported,
                  thr, calls, getter, dirty, outcome, changes, cycles >>

ChargeModeLoop ==
  \/ chargeModeLock
  \/ chargeModeWait
  \/ chargeModeWake
  \/ chargeModeCompute
  \/ \E err \in {NoError} \cup Errors : chargeModeSwitch(err)
  \/ \E err \in {NoError} \cup Errors : chargeModeLimit(err)

ChargeModeNext == ChargeModeSetters \/ ChargeModeLoop

ChargeModeSpec == ChargeModeInit /\ [][ChargeModeNext]_vars




\* ================================================================ claims

SetterInCS(t) == thr[t].pc \in {"mark", "signal", "unlock"}
CycleRunning == loopPc \in {"compute", "report", "callback"}

\* The observed bit that belongs to each sensor field (observedValues,
\* controller.go lines 21-34, by name).
FieldBit ==
  [ pwBatteryLevelPercent |-> "observedBatteryLevel",
    exportedBatteryW |-> "observedBattery",
    exportedSolarW |-> "observedExportedSolar",
    solarW |-> "observedSolar",
    loadW |-> "observedLoad",
    operationMode |-> "observedOperationMode",
    temp |-> "observedTemp",
    evseMilliAmp |-> "observedEVCurrent",
    evConnected |-> "observedEVConnected",
    loadReductionEnabled |-> "observedLR",
    controllerStrategy |-> "observedStrategy" ]

\* C1: while the strategy field's observed bit is unset, no decision cycle
\* reaches ReportBudget or the apply-budget callback, and none has: a cycle
\* that runs then ends before either call, whatever the other fields hold.
C1_NoDispatchBeforeStrategy ==
  "observedStrategy" \notin seenValues =>
    /\ loopPc \notin {"report", "callback"}
    /\ reported["budget"] = NoValue
    /\ outcome # "dispatched"

\* C1 witness: a cycle ran to its end while the strategy was unobserved and
\* other fields had been observed and changed; it was skipped.
C1_Witness ==
  /\ outcome = "skipped"
  /\ "observedStrategy" \notin seenValues
  /\ "observedTemp" \in seenValues
  /\ sensor.temp > 50 * Celsius
  /\ loopPc = "begin"

\* C2: every value passed to the apply-budget callback lies in
\* [0, volts*maxAmps] = [0, 9600].
C2_BudgetInRange ==
  /\ loopPc = "callback" => (maxPower >= 0 /\ maxPower <= 9600)
  /\ latestEVBudget >= 0 /\ latestEVBudget <= 9600

\* C2 witness: the callback is running with 0 for a snapshot whose exported
\* solar reading is negative (raw budget -5).
C2_Witness ==
  /\ loopPc = "callback"
  /\ maxPower = 0
  /\ computeMaxPower(sensor, seenValues, now) = -5

\* The tempClamps rows whose threshold the temperature exceeds.
ExceededClamps(temp) == { i \in DOMAIN tempClamps : temp > tempClamps[i].temp }
FirstExceeded(temp) ==
  CHOOSE i \in ExceededClamps(temp) : \A j \in ExceededClamps(temp) : i <= j

\* C3: in a cycle where the temperature is observed and exceeds at least one
\* table threshold, the value reported and dispatched is at most 240 W times
\* the max-amps of the first (hottest) threshold exceeded, under every strategy.
C3_TempDerateBoundsDispatch ==
  (/\ loopPc \in {"report", "callback"}
   /\ "observedTemp" \in seenValues
   /\ ExceededClamps(sensor.temp) # {})
  => maxPower <= 240 * tempClamps[FirstExceeded(sensor.temp)].maxAmps

\* C3 witness: full-speed strategy at 50.5 C, dispatching 8 A * 240 V.
C3_Witness ==
  /\ loopPc = "callback"
  /\ sensor.controllerStrategy = strategyFullSpeed
  /\ "observedTemp" \in seenValues
  /\ sensor.temp = 505
  /\ maxPower = 1920

\* C4: no value change is lost.  Stated by its safety consequence: there is
\* never a stored change that no cycle has computed from while the loop is
\* blocked in Wait, unsignalled, and no setter is still on its way to signal;
\* from such a state no cycle runs unless a further setter call changes a
\* value, so the change would have been dropped instead of queued.
C4_NoLostChange ==
  ~(/\ dirty
    /\ loopPc = "waiting"
    /\ \A t \in SetterThreads : ~SetterInCS(t))

C6_LoopReturnsOnlyCallbackError ==
  /\ (loopPc = "returned") <=> (cbErr # NoError)
  /\ loopErr = cbErr
  /\ loopPc = "returned" => loopErr \in Errors
  /\ loopPc \in {"locked", "waiting", "woken", "compute", "report", "callback"}
       => cbErr = NoError
  /\ outcome = "skipped" => (loopPc # "returned" /\ loopErr = NoError)

\* C6 witness: the callback failed with errTimeout and Loop returned it.
C6_Witness ==
  /\ loopPc = "returned"
  /\ loopErr = "errTimeout"
  /\ cbErr = "errTimeout"
  /\ outcome = "dispatched"

\* C7: a setter called with the stored value leaves every sensor value
\* unchanged, does not signal, and has set its field's observed bit when it
\* returns.
C7_SameValueSetter ==
  [][\A t \in SetterThreads :
       /\ (thr[t].pc = "idle" /\ thr'[t].pc = "mark" /\ ~thr'[t].shouldNotify)
            => sensor' = sensor
       /\ (thr[t].pc = "signal" /\ ~thr[t].shouldNotify /\ thr'[t].pc = "unlock")
            => (loopPc' = loopPc /\ FieldBit[thr[t].field] \in seenValues')]_vars

C9_SetterSetsOwnBit ==
  [][\A t \in SetterThreads :
       (thr[t].pc = "mark" /\ thr'[t].pc = "signal")
         => seenValues' = seenValues \cup {FieldBit[thr[t].field]}]_vars

\* C10: while a decision cycle is between computing and the return of its
\* callback it holds the lock, and the value it reports and dispatches is the
\* clamped budget of the snapshot as it stands: no setter has changed a sensor
\* value or an observed bit since the cycle read them.
C10_SingleFlight ==
  loopPc \in {"report", "callback"} =>
    /\ lock = LoopThread
    /\ \A t \in SetterThreads : ~SetterInCS(t)
    /\ computeMaxPower(sensor, seenValues, now) >= minSitePowerW
    /\ maxPower = clampBudget(computeMaxPower(sensor, seenValues, now))

\* C10 witness: the callback is running with 2500 W for a solar-strategy
\* snapshot exporting 2500.5 W, after another setter call had been made.
C10_Witness ==
  /\ loopPc = "callback"
  /\ maxPower = 2500
  /\ sensor.exportedSolarW = 25005
  /\ sensor.controllerStrategy = strategySolar
  /\ calls = MaxCalls

\* C11: the loop is purely change-driven.  Wait has returned at most as often
\* as setter calls have stored a new value, a wake that is still pending is
\* backed by a change no cycle has started for, and as long as no setter call
\* has changed a value no cycle has started and nothing was reported or
\* dispatched.
C11_ChangeDriven ==
  /\ cycles <= changes
  /\ loopPc = "woken" => cycles < changes
  /\ changes = 0 =>
       /\ cycles = 0
       /\ loopPc \in {"begin", "locked", "waiting"}
       /\ outcome = "none"
       /\ reported["budget"] = NoValue

\* C11 witness: two value-changing setter calls were made while the loop was
\* running its first cycle or not yet waiting, and only one cycle has started.
C11_Witness ==
  /\ changes = 2
  /\ cycles = 1
  /\ outcome = "dispatched"
  /\ loopPc = "waiting"
  /\ \A t \in SetterThreads : thr[t].pc = "idle"

\* C13: a cycle is skipped only for lack of data.  A cycle that computes while
\* the strategy is observed goes on to ReportBudget and the callback with a
\* value in [0, 9600], once: the callback follows the report and ends the
\* cycle.
C13_SkipOnlyForLackOfData ==
  [][/\ (loopPc = "compute" /\ "observedStrategy" \in seenValues
          /\ loopPc' # "compute")
       => (loopPc' = "report" /\ maxPower' >= 0 /\ maxPower' <= 9600)
     /\ (loopPc = "report" /\ loopPc' # "report") => loopPc' = "callback"
     /\ (loopPc = "callback" /\ loopPc' # "callback")
       => (loopPc' \in {"begin", "returned"} /\ outcome' = "dispatched")]_vars

\* C12: while the strategy has never been observed the compute step returns
\* the not-enough-data sentinel math.MinInt32, whatever the other sensors and
\* the clock show.
C12_ColdStartGate ==
  (loopPc = "computed" /\ "observedStrategy" \notin seenValues)
    => maxPower = MinInt32

C12_Witness ==
  /\ loopPc = "computed"
  /\ seenValues = { "observedTemp", "observedLR", "observedBattery",
                    "observedExportedSolar" }
  /\ sensor.temp = 50 * Celsius + 5
  /\ sensor.loadReductionEnabled
  /\ sensor.exportedSolarW = 25005
  /\ maxPower = MinInt32

\* The strategy the cycle's snapshot holds, once observed.
StrategyIs(st) ==
  "observedStrategy" \in seenValues /\ sensor.controllerStrategy = st

\* C14: full-speed precedence.  With the strategy observed as full-speed and
\* the temperature unobserved, the compute step returns math.MaxInt32 whatever
\* load-reduction, exported-battery and exported-solar hold, and the cycle
\* goes on, never skipped, with a budget of exactly 9600 W.
C14_FullSpeedPrecedence ==
  (StrategyIs(strategyFullSpeed) /\ "observedTemp" \notin seenValues)
    => /\ loopPc = "computed" => maxPower = MaxInt32
       /\ loopPc = "clamped" => maxPower = 9600
       /\ loopPc # "skipped"

C14_Witness ==
  /\ StrategyIs(strategyFullSpeed)
  /\ seenValues = { "observedStrategy", "observedLR", "observedBattery",
                    "observedExportedSolar" }
  /\ sensor.loadReductionEnabled
  /\ sensor.exportedBatteryW = 2005
  /\ sensor.exportedSolarW = -55
  /\ loopPc = "clamped"
  /\ maxPower = 9600

\* C15: load-reduction zeroing.  With the strategy observed as solar and
\* load-reduction observed true, the compute step returns 0 for every
\* exported-solar, exported-battery and temperature value, observed or not.
C15_LoadReductionZero ==
  (/\ loopPc = "computed"
   /\ StrategyIs(strategySolar)
   /\ "observedLR" \in seenValues
   /\ sensor.loadReductionEnabled)
    => maxPower = 0

C15_Witness ==
  /\ loopPc = "computed"
  /\ StrategyIs(strategySolar)
  /\ seenValues = { "observedStrategy", "observedLR", "observedExportedSolar" }
  /\ sensor.loadReductionEnabled
  /\ sensor.exportedSolarW = 200000
  /\ maxPower = 0

\* The ceiling the snapshot's temperature leaves: line 264-268.
Ceiling ==
  IF "observedTemp" \in seenValues THEN maxPowerForTemp(sensor.temp)
  ELSE MaxInt32

\* The solar-export rule is the one that decides: strategy solar, neither
\* load-reduction (observed and true) nor exported-battery (observed and above
\* 200 W).
SolarRuleDecides ==
  /\ StrategyIs(strategySolar)
  /\ ~("observedLR" \in seenValues /\ sensor.loadReductionEnabled)
  /\ ~("observedBattery" \in seenValues /\ sensor.exportedBatteryW > 2000)

\* The ceiling is below the float f (in tenths); an unclamped ceiling is below
\* no reading.
CeilingBelow(f) == Ceiling < MaxInt32 /\ Ceiling * 10 < f

\* w whole watts is the float f (in tenths) with its fraction discarded.
TruncatesTo(w, f) ==
  IF f >= 0 THEN w * 10 <= f /\ f < w * 10 + 10
  ELSE w * 10 >= f /\ f > w * 10 - 10

\* C16 as stated: where the solar-export rule decides, the compute step
\* returns min(ceiling, exported-solar) when exported-solar is observed, that
\* is exactly the exported-solar reading when it is below the ceiling, and the
\* ceiling when it is unobserved.
C16_SolarLimitExact ==
  (loopPc = "computed" /\ SolarRuleDecides)
    => IF "observedExportedSolar" \in seenValues
         THEN IF CeilingBelow(sensor.exportedSolarW)
                THEN maxPower = Ceiling
                ELSE maxPower * 10 = sensor.exportedSolarW
         ELSE maxPower = Ceiling

\* C16, amended: where the solar-export rule decides and exported-solar is
\* observed, the compute step returns the smaller of the ceiling and the
\* exported-solar reading with its fraction discarded (2500.5 W gives 2500,
\* -5.5 W gives -5); unobserved, it returns the ceiling.
C16_SolarLimitTruncated ==
  (loopPc = "computed" /\ SolarRuleDecides)
    => IF "observedExportedSolar" \in seenValues
         THEN \/ maxPower = Ceiling /\ CeilingBelow(sensor.exportedSolarW)
              \/ /\ TruncatesTo(maxPower, sensor.exportedSolarW)
                 /\ maxPower <= Ceiling
         ELSE maxPower = Ceiling

C16_Witness ==
  /\ loopPc = "computed"
  /\ SolarRuleDecides
  /\ "observedExportedSolar" \in seenValues
  /\ sensor.exportedSolarW = 25005
  /\ maxPower = 2500
  /\ "observedTemp" \in seenValues /\ Ceiling = 7680

\* The budget the solar-export rule gives on the snapshot: lines 297-305.
SolarRuleBudget ==
  IF "observedExportedSolar" \in seenValues
    THEN IF CeilingBelow(sensor.exportedSolarW) THEN Ceiling
         ELSE Int32OfFloat(sensor.exportedSolarW)
    ELSE Ceiling

\* C17: battery-export guard.  With the strategy observed as solar and
\* load-reduction not active, the compute step returns 0 whenever
\* exported-battery is observed and strictly above 200 W, whatever
\* exported-solar holds; at 200 W or below, or with exported-battery
\* unobserved, the solar-export rule decides.
C17_BatteryExportGuard ==
  (/\ loopPc = "computed"
   /\ StrategyIs(strategySolar)
   /\ ~("observedLR" \in seenValues /\ sensor.loadReductionEnabled))
    => IF "observedBattery" \in seenValues /\ sensor.exportedBatteryW > 2000
         THEN maxPower = 0
         ELSE maxPower = SolarRuleBudget

\* Exactly 200 W of battery export leaves the decision to the solar rule ...
C17_Witness ==
  /\ loopPc = "computed"
  /\ StrategyIs(strategySolar)
  /\ "observedBattery" \in seenValues
  /\ sensor.exportedBatteryW = 2000
  /\ "observedExportedSolar" \in seenValues
  /\ sensor.exportedSolarW = 25000
  /\ maxPower = 2500

\* ... and 200.5 W fires the guard.
C17_WitnessFires ==
  /\ loopPc = "computed"
  /\ StrategyIs(strategySolar)
  /\ "observedBattery" \in seenValues
  /\ sensor.exportedBatteryW = 2005
  /\ sensor.exportedSolarW = 25000
  /\ maxPower = 0

\* C18: off-peak strategy.  With the strategy observed as off-peak the
\* compute step returns 0 when the minute of the day m is in the peak window,
\* 960 <= m < 1260, and the temperature ceiling at every other minute,
\* whatever load-reduction, exported-battery and exported-solar hold; minute
\* 960 is inside the window and minute 1260 outside.
C18_OffPeak ==
  (loopPc = "computed" /\ StrategyIs(strategyOffpeak))
    => /\ (960 <= now /\ now < 1260) => maxPower = 0
       /\ ~(960 <= now /\ now < 1260) => maxPower = Ceiling
       /\ now = 960 => maxPower = 0
       /\ now = 1260 => maxPower = Ceiling

C18_Witness ==
  /\ loopPc = "computed"
  /\ StrategyIs(strategyOffpeak)
  /\ now = 1260
  /\ "observedLR" \in seenValues /\ sensor.loadReductionEnabled
  /\ "observedBattery" \in seenValues /\ sensor.exportedBatteryW = 2005
  /\ "observedTemp" \in seenValues /\ sensor.temp = 49 * Celsius + 5
  /\ maxPower = 2880

C18_WitnessPeak ==
  /\ loopPc = "computed"
  /\ StrategyIs(strategyOffpeak)
  /\ now = 960
  /\ "observedExportedSolar" \in seenValues /\ sensor.exportedSolarW = 25005
  /\ maxPower = 0

\* Temperatures, in tenths of a degree, the derate is compared over.
DerateTemps == (45 * Celsius) .. (51 * Celsius)

\* C19: monotone temperature derate.  The ceiling a full-speed cycle computes
\* from its temperature is at most the ceiling of every lower temperature and
\* at least the ceiling of every higher one.
C19_MonotoneDerate ==
  (/\ loopPc = "computed"
   /\ StrategyIs(strategyFullSpeed)
   /\ "observedTemp" \in seenValues)
    => /\ maxPower = maxPowerForTemp(sensor.temp)
       /\ \A t1 \in DerateTemps :
            /\ t1 < sensor.temp => maxPower <= maxPowerForTemp(t1)
            /\ t1 > sensor.temp => maxPowerForTemp(t1) <= maxPower

C19_Witness ==
  /\ loopPc = "computed"
  /\ StrategyIs(strategyFullSpeed)
  /\ "observedTemp" \in seenValues
  /\ sensor.temp = 49 * Celsius + 5
  /\ maxPower = 2880
  /\ maxPowerForTemp(48 * Celsius + 5) = 3840
  /\ maxPowerForTemp(50 * Celsius + 5) = 1920

\* The ceiling of a full-speed cycle is on the snapshot's temperature alone.
DerateComputed ==
  /\ loopPc = "computed"
  /\ StrategyIs(strategyFullSpeed)
  /\ "observedTemp" \in seenValues

\* C20 as stated: the table applies at and above each threshold.  Exactly
\* 50.0 C gives 1920 W, 49.0 C 2880 W, 48.0 C 3840 W, 47.0 C 5760 W, 46.0 C
\* 7680 W, and below 46.0 C the ceiling is unclamped.
C20_AtAndAboveThreshold ==
  DerateComputed
    => /\ sensor.temp >= 500 => maxPower = 1920
       /\ (490 <= sensor.temp /\ sensor.temp < 500) => maxPower = 2880
       /\ (480 <= sensor.temp /\ sensor.temp < 490) => maxPower = 3840
       /\ (470 <= sensor.temp /\ sensor.temp < 480) => maxPower = 5760
       /\ (460 <= sensor.temp /\ sensor.temp < 470) => maxPower = 7680
       /\ sensor.temp < 460 => maxPower = MaxInt32

\* C20, amended: the table applies strictly above each threshold.  Above
\* 50.0 C the ceiling is 1920 W; above 49.0 C up to and including 50.0 C it is
\* 2880 W; above 48.0 C up to 49.0 C, 3840 W; above 47.0 C up to 48.0 C,
\* 5760 W; above 46.0 C up to 47.0 C, 7680 W; at 46.0 C and below it is
\* unclamped.
C20_StrictlyAboveThreshold ==
  DerateComputed
    => /\ sensor.temp > 500 => maxPower = 1920
       /\ (490 < sensor.temp /\ sensor.temp <= 500) => maxPower = 2880
       /\ (480 < sensor.temp /\ sensor.temp <= 490) => maxPower = 3840
       /\ (470 < sensor.temp /\ sensor.temp <= 480) => maxPower = 5760
       /\ (460 < sensor.temp /\ sensor.temp <= 470) => maxPower = 7680
       /\ sensor.temp <= 460 => maxPower = MaxInt32

C20_Witness ==
  /\ DerateComputed
  /\ sensor.temp = 500
  /\ maxPower = 2880

\* C21: output clamp.  A raw budget r that is not below the not-enough-data
\* floor leaves the clamps as r when 0 <= r <= 9600, as 0 when r < 0 and as
\* 9600 when r > 9600; clamping the clamped value again changes nothing.
C21_OutputClamp ==
  [][(loopPc = "computed" /\ maxPower >= minSitePowerW)
       => /\ loopPc' = "clamped"
          /\ (0 <= maxPower /\ maxPower <= 9600) => maxPower' = maxPower
          /\ maxPower < 0 => maxPower' = 0
          /\ maxPower > 9600 => maxPower' = 9600
          /\ clampBudget(maxPower') = maxPower']_vars

\* A raw budget of 20000 W (exported solar, no temperature) clamped to 9600.
C21_Witness ==
  /\ loopPc = "clamped"
  /\ computeMaxPower(sensor, seenValues, now) = 20000
  /\ maxPower = 9600

\* The values a field may hold in a snapshot that agrees with the current one
\* on every observed field: the current value when observed, any otherwise.
Agreeing(bit, current, values) ==
  IF bit \in seenValues THEN {current} ELSE values

\* C22: the decision never depends on unobserved data.  Every snapshot with
\* the same observed set and the same minute that agrees with the cycle's
\* snapshot on every observed field gives the result the cycle computed,
\* whatever its unobserved fields hold.
C22_UnobservedIgnored ==
  loopPc = "computed"
    => \A st \in Agreeing("observedStrategy", sensor.controllerStrategy,
                          StrategyValues \cup {strategyUnknown}),
          tp \in Agreeing("observedTemp", sensor.temp, TempValues),
          lr \in Agreeing("observedLR", sensor.loadReductionEnabled, BOOLEAN),
          eb \in Agreeing("observedBattery", sensor.exportedBatteryW,
                          ExportedBatteryValues),
          es \in Agreeing("observedExportedSolar", sensor.exportedSolarW,
                          ExportedSolarValues) :
         computeMaxPower([sensor EXCEPT !.controllerStrategy = st,
                                        !.temp = tp,
                                        !.loadReductionEnabled = lr,
                                        !.exportedBatteryW = eb,
                                        !.exportedSolarW = es],
                         seenValues, now) = maxPower

\* Solar strategy alone observed: a snapshot whose unobserved temperature,
\* load-reduction, battery and solar fields are all set decides the same.
C22_Witness ==
  /\ loopPc = "computed"
  /\ StrategyIs(strategySolar)
  /\ seenValues = {"observedStrategy"}
  /\ maxPower = MaxInt32
  /\ computeMaxPower([sensor EXCEPT !.temp = 50 * Celsius + 5,
                                    !.loadReductionEnabled = TRUE,
                                    !.exportedBatteryW = 2005,
                                    !.exportedSolarW = 25005],
                     seenValues, now) = MaxInt32

\* C23: recomputation is deterministic over the snapshot and has no effect on
\* it.  The value a cycle reports and dispatches is the clamped result of
\* computeMaxPower on the sensors, the observed set and the minute as they
\* are, so two cycles on the same snapshot at the same minute dispatch the
\* same value; and no step of the decision loop changes a sensor value or the
\* observed set.
C23_DeterministicNoEffect ==
  [][/\ loopPc \in {"report", "callback"}
          => maxPower = clampBudget(computeMaxPower(sensor, seenValues, now))
     /\ loopPc' # loopPc => UNCHANGED << sensor, seenValues >>]_vars

\* A second cycle, woken by a sensor the decision does not read, about to
\* dispatch the 2500 W the first cycle dispatched.
C23_Witness ==
  /\ cycles = 2
  /\ loopPc = "callback"
  /\ latestEVBudget = 2500
  /\ maxPower = 2500

\* C24: a getter returns the value its field holds, which is the value the
\* field's setter stored last (NewController's zero when it never did): it
\* reads with the lock held, so no setter is between its store and its
\* unlock.  Neither step of a getter call changes a sensor value or an
\* observed bit, wakes the decision loop or starts a cycle.
C24_GetterReadsLatest ==
  [][\A g \in GetterThreads :
       /\ getter[g].pc = "read"
            => /\ lock = g
               /\ \A t \in SetterThreads : ~SetterInCS(t)
       /\ (getter[g].pc = "read" /\ getter'[g].pc = "idle")
            => getter'[g].result = sensor[getter[g].field]
       /\ getter'[g] # getter[g]
            => UNCHANGED << sensor, seenValues, loopPc, cycles, changes,
                            dirty, maxPower, reported, latestEVBudget >>]_vars

\* GetLoadW returning the 1200 W that SetLoadW stored; the only cycle is the
\* one that store woke.
C24_Witness ==
  /\ getter["events"] = [pc |-> "idle", field |-> "loadW", result |-> 12000]
  /\ sensor.loadW = 12000
  /\ changes = 1
  /\ cycles = 1

\* Load-reduction is observed true in the cycle's snapshot.
LoadReductionActive ==
  "observedLR" \in seenValues /\ sensor.loadReductionEnabled

C26_OvernightBudgetInRange ==
  /\ loopPc = "callback" => (0 <= maxPower /\ maxPower <= 9600)
  /\ outcome = "dispatched"
       => (0 <= latestEVBudget /\ latestEVBudget <= 96000)

\* The strategy is observed as auto (overnight variant).
AutoDecides == StrategyIs(strategyAuto)

\* Exported-battery is observed and above 200 W.
BatteryExportBreach ==
  "observedBattery" \in seenValues /\ sensor.exportedBatteryW > 2000

\* C27: in the overnight variant the EV battery level is looked at after
\* load-reduction and the battery-export guard and before the solar limit.
\* Under the auto strategy an active load-reduction or a battery export above
\* 200 W gives 0 even with the EV below 60%; otherwise an observed EV level
\* strictly below 60% gives the ceiling whatever exported-solar holds, and at
\* 60% or above, or unobserved, the solar-export limit applies.
C27_EVBatteryHint ==
  (loopPc = "computed" /\ AutoDecides)
    => IF LoadReductionActive \/ BatteryExportBreach THEN maxPower = 0
       ELSE IF "observedEVBattery" \in seenValues
               /\ sensor.evBatteryLevelPercent < 600
         THEN maxPower = Ceiling
       ELSE maxPower = SolarRuleBudget

\* EV at 59.5%: the ceiling is returned although 2500.5 W are exported.
C27_Witness ==
  /\ loopPc = "computed"
  /\ AutoDecides
  /\ ~LoadReductionActive /\ ~BatteryExportBreach
  /\ "observedEVBattery" \in seenValues
  /\ sensor.evBatteryLevelPercent = 595
  /\ "observedExportedSolar" \in seenValues
  /\ sensor.exportedSolarW = 25005
  /\ "observedTemp" \in seenValues
  /\ maxPower = 7680

\* C28: in the overnight variant the overnight strategy returns the
\* temperature ceiling while the hour is below 6, whatever load-reduction,
\* battery export, EV level and exported-solar hold; from 6 o'clock on it
\* returns what the auto strategy returns on the same snapshot.
C28_OvernightWindow ==
  (loopPc = "computed" /\ StrategyIs(strategyOvernight))
    => IF now < 6 * 60 THEN maxPower = Ceiling
       ELSE maxPower
              = computeMaxPowerOvernight(
                  [sensor EXCEPT !.controllerStrategy = strategyAuto],
                  seenValues, now)

\* 06:00 with load-reduction active: the overnight strategy gives 0 as auto
\* does.
C28_Witness ==
  /\ loopPc = "computed"
  /\ StrategyIs(strategyOvernight)
  /\ now = 360
  /\ LoadReductionActive
  /\ maxPower = 0

\* 05:59 with load-reduction active: the ceiling.
C28_WitnessNight ==
  /\ loopPc = "computed"
  /\ StrategyIs(strategyOvernight)
  /\ now = 359
  /\ LoadReductionActive
  /\ maxPower = MaxInt32

\* The callback invocation this step adds to the cycle's, if it adds one.
Invokes(fn) ==
  /\ Len(invoked') = Len(invoked) + 1
  /\ invoked'[Len(invoked')].fn = fn

LastInvoked == invoked'[Len(invoked')]

\* C29: in the charge-mode variant setEcoPowerLimit is invoked only when the
\* stored charge mode is Eco or the call before it in the same cycle was a
\* setChargeMode(Eco) that returned no error; a setChargeMode that returns an
\* error ends the cycle without setEcoPowerLimit, and Loop returns that error.
C29_ModeBeforeLimit ==
  [][/\ Invokes("setEcoPowerLimit")
          => \/ sensor.currentChargeMode = chargeModeEco
             \/ /\ Len(invoked) > 0
                /\ invoked[Len(invoked)]
                     = [fn |-> "setChargeMode", arg |-> chargeModeEco,
                        err |-> NoError]
     /\ (Invokes("setChargeMode") /\ LastInvoked.err # NoError)
          => /\ loopPc' = "returned"
             /\ loopErr' = LastInvoked.err
     /\ loopPc = "returned" => invoked' = invoked]_vars

\* A cycle that found the charger in Fast mode, switched it to Eco and then
\* set the limit to 2500 W.
C29_Witness ==
  /\ sensor.currentChargeMode = chargeModeFast
  /\ Len(invoked) = 2
  /\ invoked[1] = [fn |-> "setChargeMode", arg |-> chargeModeEco,
                   err |-> NoError]
  /\ invoked[2].fn = "setEcoPowerLimit"
  /\ invoked[2].arg = 25000

\* A cycle ends: singleLoop returns.
CycleEnds ==
  loopPc \in {"compute", "mode", "limit"} /\ loopPc' \in {"begin", "returned"}

\* What a cycle above 9600 W does, and when setChargeMode is invoked: the
\* first two statements of C30.
FastModeRule ==
  /\ Invokes("setEcoPowerLimit") => maxPower <= 9600
  /\ (CycleEnds /\ maxPower' > 9600)
       => ((Requested(invoked') = chargeModeFast)
             <=> sensor.currentChargeMode # chargeModeFast)
  /\ Invokes("setChargeMode") => sensor.currentChargeMode # LastInvoked.arg

\* C30 as stated: above 9600 W the cycle never calls setEcoPowerLimit and
\* calls setChargeMode(Fast) exactly when the stored mode is not Fast;
\* setChargeMode(m) is never invoked while the stored mode is m; and a cycle
\* that follows one that requested a switch, with no SetCurrentChargeMode
\* between them, requests the same switch again.
C30_SwitchRepeats ==
  [][/\ FastModeRule
     /\ (CycleEnds /\ lastSwitch # chargeModeUnknown)
          => Requested(invoked') = lastSwitch]_vars

\* C30, amended: the switch is requested again when the second cycle's raw
\* budget is on the same side of 9600 W as the first's: above it after a
\* request for Fast, in [-100000, 9600] after a request for Eco.
C30_SwitchRepeatsSameSide ==
  [][/\ FastModeRule
     /\ (/\ CycleEnds
         /\ \/ lastSwitch = chargeModeFast /\ maxPower' > 9600
            \/ /\ lastSwitch = chargeModeEco
               /\ maxPower' <= 9600 /\ maxPower' >= -100000)
          => Requested(invoked') = lastSwitch]_vars

\* The cycle after one that requested Fast, the stored mode still Eco and the
\* budget still above 9600 W, about to request Fast again.
C30_Witness ==
  /\ loopPc = "mode"
  /\ cycles >= 2
  /\ lastSwitch = chargeModeFast
  /\ sensor.currentChargeMode = chargeModeEco
  /\ maxPower = MaxInt32

\* ------------------------------------------------------ the MQTT reporter
\* MQTTReporter of mqtt.go: the Report calls put items into a buffered
\* channel and publishLoop, a goroutine of its own, publishes them.

\* make(chan ToNotify, 10)
queueCapacity == 10

\* At most this many reports are pending in ReporterSpec.
MaxPending == 3

\* The budgets and charger currents reported.
ReportedWatts == { 0, 9600 }
ReportedMilliAmps == { 0 }

\* The reports of a caller that repeats itself while the publisher stalls.
RepeatedWatts == { 0 }
RepeatedMilliAmps == { 0 }

DecimalDigits == << "0", "1", "2", "3", "4", "5", "6", "7", "8", "9" >>

RECURSIVE FormatNat(_)
\* The decimal digits of a natural number, most significant first.
FormatNat(n) ==
  IF n < 10 THEN << DecimalDigits[n + 1] >>
  ELSE Append(FormatNat(n \div 10), DecimalDigits[(n % 10) + 1])

\* fmt.Sprintf("%d", n), as the sequence of its characters.
FormatD(n) == IF n < 0 THEN << "-" >> \o FormatNat(-n) ELSE FormatNat(n)

\* A send with no default case: the caller waits for room in the channel.
ReportBlocking(topic, payload) ==
  /\ Len(queue) < queueCapacity
  /\ queue' = Append(queue, [topic |-> topic, payload |-> payload])
  /\ delivery' = "queued"
  /\ UNCHANGED << lastSeenValues, publisher, logged, ControllerVars >>

\* select { case m.queue <- ToNotify{topic, payload}: default: }
\* The send case is ready when the channel's buffer has room; the default
\* case runs otherwise.
Report(topic, payload) ==
  /\ IF Len(queue) < queueCapacity
       THEN /\ queue' = Append(queue, [topic |-> topic, payload |-> payload])
            /\ delivery' = "queued"
       ELSE /\ UNCHANGED queue
            /\ delivery' = "dropped"
  /\ UNCHANGED << lastSeenValues, publisher, logged, ControllerVars >>

ReportBudget(watts) == Report("budget", FormatD(watts))

ReportEVSECurrent(milliamps) == Report("evse_current", FormatD(milliamps))

\* publishLoop, lines 102-109: the discovery messages, before the first
\* receive.  Their errors are logged under another text and change nothing.
publishDiscovery ==
  /\ publisher.pc = "discovery"
  /\ publisher' = [publisher EXCEPT !.pc = "recv"]
  /\ UNCHANGED << queue, lastSeenValues, delivery, logged, ControllerVars >>

\* for item := range m.queue: the oldest item is taken; it is skipped if
\* lastSeenValues holds its payload for its topic, and m.mqttClient.Publish
\* is called with it otherwise.
publishLoopReceive ==
  /\ publisher.pc = "recv"
  /\ queue # << >>
  /\ queue' = Tail(queue)
  /\ IF lastSeenValues[Head(queue).topic] = Head(queue).payload
       THEN UNCHANGED publisher
       ELSE publisher' = [pc |-> "publish", item |-> Head(queue)]
  /\ UNCHANGED << lastSeenValues, delivery, logged, ControllerVars >>

\* publishLoop recording the payload whatever the publish returned.
publishLoopPublishedRecordsAll(err) ==
  /\ publisher.pc = "publish"
  /\ lastSeenValues' =
       [lastSeenValues EXCEPT ![publisher.item.topic] = publisher.item.payload]
  /\ IF err # NoError THEN logged' = publisher.item.topic ELSE UNCHANGED logged
  /\ publisher' = [pc |-> "recv", item |-> NoItem]
  /\ UNCHANGED << queue, delivery, ControllerVars >>

\* token.Wait() returns and token.Error() is err: an error is logged, and
\* the payload is recorded in lastSeenValues if there is none.
publishLoopPublished(err) ==
  /\ publisher.pc = "publish"
  /\ IF err # NoError
       THEN /\ logged' = publisher.item.topic
            /\ UNCHANGED lastSeenValues
       ELSE /\ lastSeenValues' = [lastSeenValues EXCEPT
                 ![publisher.item.topic] = publisher.item.payload]
            /\ UNCHANGED logged
  /\ publisher' = [pc |-> "recv", item |-> NoItem]
  /\ UNCHANGED << queue, delivery, ControllerVars >>

publishLoop ==
  \/ publishDiscovery
  \/ publishLoopReceive
  \/ \E err \in {NoError} \cup Errors : publishLoopPublished(err)

\* The reporter with a few reports pending at a time.  No step of
\* publishLoop is ever forced: the broker may stall any publish for ever.
ReporterNext ==
  \/ /\ Len(queue) < MaxPending
     /\ \E watts \in ReportedWatts : ReportBudget(watts)
  \/ /\ Len(queue) < MaxPending
     /\ \E milliamps \in ReportedMilliAmps : ReportEVSECurrent(milliamps)
  \/ publishLoop

ReporterSpec == Init /\ [][ReporterNext]_vars

\* The reporter under callers that report without limit.
StalledNext ==
  \/ \E watts \in RepeatedWatts : ReportBudget(watts)
  \/ \E milliamps \in RepeatedMilliAmps : ReportEVSECurrent(milliamps)
  \/ publishLoop

StalledSpec == Init /\ [][StalledNext]_vars

\* Both bits of the charge-mode variant's gate are set.
GateOpen ==
  "observedStrategy" \in seenValues /\ "observedChargeMode" \in seenValues

\* C31: in the charge-mode variant computeMaxPower returns the
\* insufficient-data sentinel unless both the strategy and the current charge
\* mode have been observed, and the cycle then returns at once: no
\* setChargeMode or setEcoPowerLimit call is made before both are observed.
C31_ChargeModeGate ==
  [][/\ (loopPc = "compute" /\ loopPc' # "compute" /\ ~GateOpen)
          => /\ maxPower' = MinInt32
             /\ loopPc' = "begin"
             /\ invoked' = << >>
     /\ (loopPc = "compute" /\ loopPc' # "compute" /\ GateOpen)
          => maxPower' # MinInt32
     /\ invoked' # << >> => GateOpen]_vars

\* A cycle skipped with the strategy observed and the charge mode not.
C31_Witness ==
  /\ "observedStrategy" \in seenValues
  /\ "observedChargeMode" \notin seenValues
  /\ cycles = 1
  /\ outcome = "skipped"
  /\ loopPc = "begin"
  /\ maxPower = MinInt32
  /\ invoked = << >>

\* The temperature is observed and above the cutoff of 45.0 C.
CutoffExceeded ==
  "observedTemp" \in seenValues /\ sensor.tempDeciCelsius > 450

\* C32: in the charge-mode variant the derate is one hard cutoff.  The
\* ceiling, which the full-speed strategy returns, is 1920 W when the
\* temperature is observed and strictly above 45.0 C and unclamped when it is
\* unobserved or at most 45.0 C; with the cutoff exceeded no strategy has Fast
\* mode requested or an eco limit above 1920 W set.
C32_HardCutoff ==
  [][/\ loopPc \in {"mode", "limit"}
          => /\ CutoffExceeded => maxPower <= 1920
             /\ sensor.controllerStrategy = strategyFullSpeed
                  => maxPower = IF CutoffExceeded THEN 1920 ELSE MaxInt32
     /\ (Invokes("setChargeMode") /\ CutoffExceeded)
          => LastInvoked.arg # chargeModeFast
     /\ (Invokes("setEcoPowerLimit") /\ CutoffExceeded)
          => LastInvoked.arg <= 19200]_vars

\* Full-speed at 45.1 C with the charger in Fast mode: Eco is requested and
\* the limit set to 1920 W.
C32_Witness ==
  /\ CutoffExceeded
  /\ sensor.controllerStrategy = strategyFullSpeed
  /\ sensor.currentChargeMode = chargeModeFast
  /\ Len(invoked) = 2
  /\ invoked[1].arg = chargeModeEco
  /\ invoked[2] = [fn |-> "setEcoPowerLimit", arg |-> 19200, err |-> NoError]

\* What the last ReportBudget call was given, NoValue before the first; as
\* a string, so that the two kinds of value can be compared.
BudgetReported == ToString(reported["budget"])

\* C33: a cycle that dispatches calls ReportBudget once, with the clamped
\* value, before the apply-budget callback, which gets the same value; the
\* report is therefore also made in the cycle whose callback fails.  Nothing
\* else calls ReportBudget, and a cycle that ends with insufficient data
\* calls neither.
C33_ReportThenDispatch ==
  [][/\ (loopPc = "compute" /\ loopPc' # "compute")
          => \/ /\ loopPc' = "begin"
                /\ outcome' = "skipped"
                /\ BudgetReported' = BudgetReported
                /\ latestEVBudget' = latestEVBudget
             \/ /\ loopPc' = "report"
                /\ maxPower' \in 0..(volts * maxAmps)
                /\ BudgetReported' = BudgetReported
                /\ latestEVBudget' = latestEVBudget
     /\ (loopPc = "report" /\ loopPc' # "report")
          => /\ loopPc' = "callback"
             /\ BudgetReported' = ToString(maxPower)
             /\ maxPower' = maxPower
             /\ latestEVBudget' = latestEVBudget
     /\ (loopPc = "callback" /\ loopPc' # "callback")
          => /\ loopPc' \in {"begin", "returned"}
             /\ ToString(latestEVBudget') = BudgetReported
             /\ BudgetReported' = BudgetReported
             /\ outcome' = "dispatched"
     /\ BudgetReported' # BudgetReported => loopPc = "report"
     /\ latestEVBudget' # latestEVBudget => loopPc = "callback"]_vars

\* The callback failed in a cycle that had reported the budget it was given.
C33_Witness ==
  /\ loopPc = "returned"
  /\ outcome = "dispatched"
  /\ cbErr # NoError
  /\ BudgetReported = ToString(9600)
  /\ latestEVBudget = 9600

\* Every modelled Report call can complete in the current state.
ReportReturns ==
  /\ \A watts \in ReportedWatts : ENABLED ReportBudget(watts)
  /\ \A milliamps \in ReportedMilliAmps : ENABLED ReportEVSECurrent(milliamps)

\* C34: telemetry is fire-and-forget.  In every state of the queue and of
\* the publisher a Report call returns; it appends its item when fewer than
\* 10 are pending and drops it, leaving the queue as it was, when 10 are
\* pending; the queue never holds more than 10 items.
C34_FireAndForget ==
  /\ [](ReportReturns /\ Len(queue) <= queueCapacity)
  /\ [][/\ Len(queue') > Len(queue)
             => /\ Len(queue) < 10
                /\ delivery' = "queued"
                /\ SubSeq(queue', 1, Len(queue)) = queue
                /\ Len(queue') = Len(queue) + 1
                /\ publisher' = publisher
        /\ (delivery' = "dropped" /\ delivery # "dropped")
             => /\ Len(queue) = 10
                /\ queue' = queue
                /\ publisher' = publisher
        /\ (delivery' = "queued" /\ delivery # "queued")
             => Len(queue') = Len(queue) + 1]_vars

\* Ten reports are pending behind a publish that has not returned, and the
\* report made last was dropped.
C34_Witness ==
  /\ Len(queue) = 10
  /\ publisher.pc = "publish"
  /\ delivery = "dropped"
  /\ ReportReturns

\* The item publishLoop takes next: the oldest in the channel.
Oldest == Head(queue)

\* C35: publishLoop takes the queued reports oldest first, and reports are
\* added behind those pending.  It publishes an item if and only if its
\* payload differs from the one recorded for its topic, and the record of a
\* topic changes only when a publish on that topic succeeds, to the payload
\* published: after a failed publish the record is what it was, so the same
\* payload is not suppressed when it is reported again.
C35_PublishOnChange ==
  [][/\ Len(queue') < Len(queue)
          => /\ publisher.pc = "recv"
             /\ queue' = Tail(queue)
             /\ lastSeenValues' = lastSeenValues
             /\ IF lastSeenValues[Oldest.topic] = Oldest.payload
                  THEN publisher' = publisher
                  ELSE publisher' = [pc |-> "publish", item |-> Oldest]
     /\ Len(queue') > Len(queue)
          => SubSeq(queue', 1, Len(queue)) = queue
     /\ (publisher.pc # "publish" /\ publisher'.pc = "publish")
          => Len(queue') < Len(queue)
     /\ publisher.pc = "publish"
          => lastSeenValues[publisher.item.topic] # publisher.item.payload
     /\ lastSeenValues' # lastSeenValues
          => /\ publisher.pc = "publish"
             /\ logged' = logged
             /\ lastSeenValues' = [lastSeenValues EXCEPT
                  ![publisher.item.topic] = publisher.item.payload]
     /\ logged' # logged
          => /\ publisher.pc = "publish"
             /\ logged' = publisher.item.topic
             /\ lastSeenValues' = lastSeenValues]_vars

\* A publish of the charger current failed, and the same payload, reported
\* again, is being published; a budget has been published in between.
C35_Witness ==
  /\ logged = "evse_current"
  /\ publisher = [pc |-> "publish",
                  item |-> [topic |-> "evse_current", payload |-> << "0" >>]]
  /\ lastSeenValues["evse_current"] = << >>
  /\ lastSeenValues["budget"] = << "9", "6", "0", "0" >>

\* The strategy has been observed, so the gate of computeMaxPower is open.
StrategyObserved == "observedStrategy" \in seenValues

\* C36: the observed set only grows: no step of a setter, a getter or the
\* decision cycle removes a bit from it, and once the strategy has been
\* observed no cycle gets the insufficient-data sentinel from
\* computeMaxPower.
C36_ObservedOnlyGrows ==
  [][/\ seenValues \subseteq seenValues'
     /\ seenValues' \subseteq observedValues
     /\ (loopPc = "compute" /\ StrategyObserved)
          => \A t \in (IF readsClock(sensor, seenValues)
                         THEN Minutes ELSE {NoTime}) :
               computeMaxPower(sensor, seenValues, t) # MinInt32
     /\ (loopPc = "compute" /\ ~StrategyObserved)
          => computeMaxPower(sensor, seenValues, NoTime) = MinInt32]_vars

\* The strategy was observed before the first cycle, a second field after
\* it, and the second cycle is about to compute.
C36_Witness ==
  /\ loopPc = "compute"
  /\ cycles = 2
  /\ StrategyObserved
  /\ Cardinality(seenValues) >= 2

====
